---- MODULE Spec2Model ----
(***************************************************************************)
(* Model of the policy evaluation and matching engine of kaaj-mvp:         *)
(*   app/rules/base.py, app/rules/criteria/*.py   the criterion rules      *)
(*   app/rules/engine.py                          MatchingEngine           *)
(*   app/services/matching_service.py             LenderMatchingService    *)
(*                                                                         *)
(* Representation of Python values                                         *)
(*   Optional[T]   <<>> for None, <<v>> for a present value v              *)
(*   str           the tuple of its characters, <<"C","A">> for "CA"       *)
(*   f-string      the tuple <<template, value, ...>> of its template and   *)
(*                 the values formatted into it                            *)
(*   float         an exact rational <<numerator, denominator>> in lowest  *)
(*                 terms with a positive denominator                       *)
(*   years (float) an integer number of tenths of a year (25 is 2.5)       *)
(*   cents (int)   an integer                                              *)
(***************************************************************************)
EXTENDS Integers, Sequences, FiniteSets, TLC

VARIABLES context, policy, lender_result, policies, matches, matching_result,
          registry, raised, returned, earlier, again, handed_out,
          tasks, completed, threads, rule_call,
          files, loader, application_status, workflow_run, step_call,
          in_progress

vars == <<context, policy, lender_result, policies, matches, matching_result,
          registry, raised, returned, earlier, again, handed_out,
          tasks, completed, threads, rule_call,
          files, loader, application_status, workflow_run, step_call,
          in_progress>>

(* the policy files and the PolicyLoader reading them *)
loader_vars == <<files, loader>>

(* the application's row in the database, the WorkflowRun handed back by
   trigger_evaluation, the last workflow step or loader method that returned,
   and the call that has started and not returned yet, with the await or the
   file-system call it is at *)
workflow_vars == <<application_status, workflow_run, step_call, in_progress>>

(* the event loop's tasks and the threads inside get_rule *)
concurrent_vars == <<tasks, completed, threads>>

-----------------------------------------------------------------------------
(* Optional values *)

None == <<>>

Some(v) == <<v>>

IsNone(o) == o = <<>>

Val(o) == o[1]

(* Python truthiness of an Optional[int]: None and 0 are falsy *)
TruthyInt(o) == o # <<>> /\ o[1] # 0

(* Python truthiness of an Optional[list]: None and [] are falsy *)
TruthyList(o) == o # <<>> /\ Len(o[1]) > 0

-----------------------------------------------------------------------------
(* Strings as character tuples *)

LowerLetters ==
  <<"a","b","c","d","e","f","g","h","i","j","k","l","m",
    "n","o","p","q","r","s","t","u","v","w","x","y","z">>

UpperLetters ==
  <<"A","B","C","D","E","F","G","H","I","J","K","L","M",
    "N","O","P","Q","R","S","T","U","V","W","X","Y","Z">>

UpperChar(c) ==
  IF \E i \in 1..26 : LowerLetters[i] = c
  THEN UpperLetters[CHOOSE i \in 1..26 : LowerLetters[i] = c]
  ELSE c

LowerChar(c) ==
  IF \E i \in 1..26 : UpperLetters[i] = c
  THEN LowerLetters[CHOOSE i \in 1..26 : UpperLetters[i] = c]
  ELSE c

Upper(s) == [i \in 1..Len(s) |-> UpperChar(s[i])]

Lower(s) == [i \in 1..Len(s) |-> LowerChar(s[i])]

(* str.title() of a single alphabetic word *)
Title(s) == [i \in 1..Len(s) |-> IF i = 1 THEN UpperChar(s[i]) ELSE LowerChar(s[i])]

(* Python's  sub in s  on strings: sub occurs as a contiguous slice of s *)
Contains(s, sub) ==
  \E k \in 0..(Len(s) - Len(sub)) :
    \A i \in 1..Len(sub) : s[k + i] = sub[i]

(* Python's  x in list *)
InList(x, list) == \E i \in 1..Len(list) : list[i] = x

MapSeq(Op(_), s) == [i \in 1..Len(s) |-> Op(s[i])]

(* an f-string: its template followed by the values it formats *)
Msg(tpl, args) == <<tpl>> \o args

-----------------------------------------------------------------------------
(* Exact rationals standing for Python floats *)

Abs(x) == IF x < 0 THEN -x ELSE x

RECURSIVE GCD(_, _)
GCD(a, b) == IF b = 0 THEN a ELSE GCD(b, a % b)

Rat(n, d) == LET g == GCD(Abs(n), d) IN <<n \div g, d \div g>>

RatInt(i) == <<i, 1>>

RatAdd(a, b) == Rat(a[1] * b[2] + b[1] * a[2], a[2] * b[2])

RatSub(a, b) == Rat(a[1] * b[2] - b[1] * a[2], a[2] * b[2])

RatMul(a, b) == Rat(a[1] * b[1], a[2] * b[2])

(* a / b for b > 0 *)
RatDiv(a, b) == Rat(a[1] * b[2], a[2] * b[1])

RatLT(a, b) == a[1] * b[2] < b[1] * a[2]

RatLE(a, b) == a[1] * b[2] <= b[1] * a[2]

RatMin(a, b) == IF RatLT(b, a) THEN b ELSE a

RatMax(a, b) == IF RatLT(a, b) THEN b ELSE a

RECURSIVE RatSum(_)
RatSum(s) == IF s = <<>> THEN RatInt(0) ELSE RatAdd(Head(s), RatSum(Tail(s)))

(* f"{cents/100:,.0f}": the whole dollars nearest to cents/100, a half going
   to the even neighbour *)
FormatDollars(cents) ==
  LET q == cents \div 100
      r == cents % 100
  IN  IF r < 50 THEN q
      ELSE IF r > 50 THEN q + 1
      ELSE IF q % 2 = 0 THEN q ELSE q + 1

-----------------------------------------------------------------------------
(* app/rules/base.py *)

(* EvaluationContext.get_credit_score *)
get_credit_score(ctx, score_type) ==
  LET t == Lower(score_type)
  IN  IF t = <<"f","i","c","o">> THEN ctx.fico_score
      ELSE IF t = <<"t","r","a","n","s","u","n","i","o","n">> THEN ctx.transunion_score
      ELSE IF t = <<"e","x","p","e","r","i","a","n">> THEN ctx.experian_score
      ELSE IF t = <<"e","q","u","i","f","a","x">> THEN ctx.equifax_score
      ELSE IF t = <<"p","a","y","n","e","t">> THEN ctx.paynet_score
      ELSE None

(* EvaluationContext.is_trucking *)
is_trucking(ctx) ==
  Lower(ctx.equipment_category) \in
    { <<"c","l","a","s","s","_","8","_","t","r","u","c","k">>,
      <<"t","r","a","i","l","e","r">>,
      <<"s","e","m","i">>,
      <<"t","r","u","c","k">> }

(* RuleResult.__post_init__: the score is clamped into [0, 100] *)
ClampScore(score) ==
  IF RatLT(score, RatInt(0)) THEN RatInt(0)
  ELSE IF RatLT(RatInt(100), score) THEN RatInt(100)
  ELSE score

(* a RuleResult that keeps the score as it is given *)
RuleResult_unclamped(passed, rule_name, message, score, details) ==
  [passed |-> passed, rule_name |-> rule_name, message |-> message,
   score |-> score, details |-> details]

(* RuleResult(...): required_value and actual_value are display strings that
   no decision reads; they are not carried.  details is None or the tuple of
   the messages of the failed checks *)
RuleResult(passed, rule_name, message, score, details) ==
  [passed |-> passed, rule_name |-> rule_name, message |-> message,
   score |-> ClampScore(score), details |-> details]

(* Rule._create_passed_result *)
create_passed_result(rule_name, message, score, details) ==
  RuleResult(TRUE, rule_name, message, score, details)

(* Rule._create_failed_result *)
create_failed_result(rule_name, message, details) ==
  RuleResult(FALSE, rule_name, message, RatInt(0), details)

-----------------------------------------------------------------------------
(* app/rules/criteria/credit_score.py *)

(* a bonus computed in whole points, as integer arithmetic would *)
calculate_bonus_score_truncated(actual_score, min_score) ==
  RatAdd(RatInt(70),
         RatMin(RatInt(30), RatInt(((actual_score - min_score) * 3) \div 10)))

(* CreditScoreRule._calculate_bonus_score: 70 + min(30, excess * 0.3) *)
calculate_bonus_score(actual_score, min_score) ==
  LET excess == actual_score - min_score
      bonus  == RatMin(RatInt(30), Rat(excess * 3, 10))
  IN  RatAdd(RatInt(70), bonus)

(* CreditScoreRule.evaluate; criteria = {"type", "min"} *)
CreditScoreRule_evaluate(ctx, criteria) ==
  LET score_type   == criteria.type
      min_score    == criteria.min
      rule_name    == Msg("Minimum {} Score", <<Title(score_type)>>)
      actual_score == get_credit_score(ctx, score_type)
  IN  IF IsNone(actual_score)
      THEN create_failed_result(rule_name,
             Msg("{} credit score not provided", <<Title(score_type)>>), None)
      ELSE IF Val(actual_score) >= min_score
      THEN create_passed_result(rule_name,
             Msg("{} credit score {} meets minimum {}",
                 <<Title(score_type), Val(actual_score), min_score>>),
             calculate_bonus_score(Val(actual_score), min_score), None)
      ELSE create_failed_result(rule_name,
             Msg("{} credit score {} below minimum {}",
                 <<Title(score_type), Val(actual_score), min_score>>), None)

-----------------------------------------------------------------------------
(* app/rules/criteria/loan_amount.py *)

(* LoanAmountRule.evaluate; criteria = {"min_amount"?, "max_amount"?} *)
LoanAmountRule_evaluate(ctx, criteria) ==
  LET loan_amount == ctx.loan_amount
      min_amount  == criteria.min_amount
      max_amount  == criteria.max_amount
  IN  IF ~IsNone(min_amount) /\ loan_amount < Val(min_amount)
      THEN create_failed_result(Msg("Minimum Loan Amount", <<>>),
             Msg("Loan amount ${} below minimum ${}",
                 <<FormatDollars(loan_amount), FormatDollars(Val(min_amount))>>), None)
      ELSE IF ~IsNone(max_amount) /\ loan_amount > Val(max_amount)
      THEN create_failed_result(Msg("Maximum Loan Amount", <<>>),
             Msg("Loan amount ${} exceeds maximum ${}",
                 <<FormatDollars(loan_amount), FormatDollars(Val(max_amount))>>), None)
      ELSE create_passed_result(Msg("Loan Amount", <<>>),
             Msg("Loan amount ${} within allowed range",
                 <<FormatDollars(loan_amount)>>), RatInt(100), None)

-----------------------------------------------------------------------------
(* app/rules/criteria/equipment.py *)

(* EquipmentRule._check_age: a failed check's message, or None *)
check_age(ctx, max_age) ==
  IF ctx.equipment_age_years > max_age
  THEN Some(Msg("Equipment age {} years exceeds maximum {} years",
                <<ctx.equipment_age_years, max_age>>))
  ELSE None

(* EquipmentRule._check_mileage *)
check_mileage(ctx, max_mileage) ==
  IF IsNone(ctx.equipment_mileage) THEN None
  ELSE IF Val(ctx.equipment_mileage) > max_mileage
  THEN Some(Msg("Equipment mileage {:,} exceeds maximum {:,}",
                <<Val(ctx.equipment_mileage), max_mileage>>))
  ELSE None

(* EquipmentRule._check_hours *)
check_hours(ctx, max_hours) ==
  IF IsNone(ctx.equipment_hours) THEN None
  ELSE IF Val(ctx.equipment_hours) > max_hours
  THEN Some(Msg("Equipment hours {:,} exceeds maximum {:,}",
                <<Val(ctx.equipment_hours), max_hours>>))
  ELSE None

(* EquipmentRule._calculate_score: max(60, 100 - age/max_age * 20) *)
EquipmentRule_calculate_score(ctx, criteria) ==
  LET age_ratio ==
        IF IsNone(criteria.max_age_years) THEN RatInt(0)
        ELSE IF Val(criteria.max_age_years) > 0
        THEN Rat(ctx.equipment_age_years, Val(criteria.max_age_years))
        ELSE RatInt(0)
  IN  RatMax(RatInt(60), RatSub(RatInt(100), RatMul(age_ratio, RatInt(20))))

(* EquipmentRule.evaluate; criteria = {"max_age_years"?, "max_mileage"?,
   "max_hours"?} *)
EquipmentRule_evaluate(ctx, criteria) ==
  LET age     == IF IsNone(criteria.max_age_years) THEN None
                 ELSE check_age(ctx, Val(criteria.max_age_years))
      mileage == IF IsNone(criteria.max_mileage) THEN None
                 ELSE check_mileage(ctx, Val(criteria.max_mileage))
      hours   == IF IsNone(criteria.max_hours) THEN None
                 ELSE check_hours(ctx, Val(criteria.max_hours))
      failed_checks == age \o mileage \o hours
  IN  IF failed_checks # <<>>
      THEN create_failed_result(Msg("Equipment Requirements", <<>>),
             failed_checks[1], Some(failed_checks))
      ELSE create_passed_result(Msg("Equipment Requirements", <<>>),
             Msg("Equipment meets all requirements", <<>>),
             EquipmentRule_calculate_score(ctx, criteria), None)

-----------------------------------------------------------------------------
(* app/rules/criteria/business.py *)

(* CheckResult(passed, score, max_score, message) *)
CheckResult(passed, score, max_score, message) ==
  [passed |-> passed, score |-> score, max_score |-> max_score,
   message |-> message]

(* BusinessRequirementsRule._check_time_in_business; the bonus is
   min(25, (years_in_business - min_tib) * 5), years in tenths *)
check_time_in_business(ctx, min_tib) ==
  IF ctx.years_in_business >= min_tib
  THEN CheckResult(TRUE,
         RatMin(RatInt(25), Rat((ctx.years_in_business - min_tib) * 5, 10)), 25,
         Msg("Time in business {:.1f} years meets minimum {} years",
             <<ctx.years_in_business, min_tib>>))
  ELSE CheckResult(FALSE, RatInt(0), 25,
         Msg("Time in business {:.1f} years below minimum {} years",
             <<ctx.years_in_business, min_tib>>))

(* BusinessRequirementsRule._check_homeowner *)
check_homeowner(ctx) ==
  IF ctx.is_homeowner
  THEN CheckResult(TRUE, RatInt(15), 15, Msg("Homeowner requirement met", <<>>))
  ELSE CheckResult(FALSE, RatInt(0), 15,
         Msg("Applicant is not a homeowner (required)", <<>>))

(* BusinessRequirementsRule._check_cdl *)
check_cdl(ctx) ==
  IF ctx.has_cdl
  THEN CheckResult(TRUE, RatInt(10), 10, Msg("CDL requirement met", <<>>))
  ELSE CheckResult(FALSE, RatInt(0), 10,
         Msg("CDL license required but not held", <<>>))

(* BusinessRequirementsRule._check_cdl_years *)
check_cdl_years(ctx, min_cdl_years) ==
  IF TruthyInt(ctx.cdl_years) /\ Val(ctx.cdl_years) >= min_cdl_years
  THEN CheckResult(TRUE, RatInt(15), 15,
         Msg("CDL experience {} years meets minimum {} years",
             <<Val(ctx.cdl_years), min_cdl_years>>))
  ELSE CheckResult(FALSE, RatInt(0), 15,
         IF TruthyInt(ctx.cdl_years)
         THEN Msg("CDL experience {} years below minimum {} years",
                  <<Val(ctx.cdl_years), min_cdl_years>>)
         ELSE Msg("CDL experience No CDL below minimum {} years",
                  <<min_cdl_years>>))

(* BusinessRequirementsRule._check_industry_experience *)
check_industry_experience(ctx, min_exp) ==
  IF TruthyInt(ctx.industry_experience_years)
     /\ Val(ctx.industry_experience_years) >= min_exp
  THEN CheckResult(TRUE, RatInt(15), 15,
         Msg("Industry experience {} years meets minimum {} years",
             <<Val(ctx.industry_experience_years), min_exp>>))
  ELSE CheckResult(FALSE, RatInt(0), 15,
         IF TruthyInt(ctx.industry_experience_years)
         THEN Msg("Industry experience {} years below minimum {} years",
                  <<Val(ctx.industry_experience_years), min_exp>>)
         ELSE Msg("Industry experience Not provided below minimum {} years",
                  <<min_exp>>))

(* BusinessRequirementsRule._check_fleet_size *)
check_fleet_size(ctx, min_fleet) ==
  IF TruthyInt(ctx.fleet_size) /\ Val(ctx.fleet_size) >= min_fleet
  THEN CheckResult(TRUE, RatInt(10), 10,
         Msg("Fleet size {} meets minimum {}", <<Val(ctx.fleet_size), min_fleet>>))
  ELSE CheckResult(FALSE, RatInt(0), 10,
         Msg("Fleet size {} below minimum {}",
             <<IF TruthyInt(ctx.fleet_size) THEN Val(ctx.fleet_size) ELSE 0,
               min_fleet>>))

(* BusinessRequirementsRule._check_annual_revenue *)
check_annual_revenue(ctx, min_revenue) ==
  IF TruthyInt(ctx.annual_revenue) /\ Val(ctx.annual_revenue) >= min_revenue
  THEN CheckResult(TRUE, RatInt(10), 10,
         Msg("Annual revenue ${:,} meets minimum ${:,}",
             <<Val(ctx.annual_revenue), min_revenue>>))
  ELSE CheckResult(FALSE, RatInt(0), 10,
         IF TruthyInt(ctx.annual_revenue)
         THEN Msg("Annual revenue ${:,} below minimum ${:,}",
                  <<Val(ctx.annual_revenue), min_revenue>>)
         ELSE Msg("Annual revenue Not provided below minimum ${:,}",
                  <<min_revenue>>))

(* BusinessRequirementsRule._is_cdl_required; requires_cdl is None or one of
   "true", "false", "conditional" *)
is_cdl_required(criteria, ctx) ==
  LET cdl_required == criteria.requires_cdl
  IN  IF cdl_required = Some("conditional") /\ is_trucking(ctx) THEN TRUE
      ELSE cdl_required = Some("true")

(* the checks BusinessRequirementsRule.evaluate adds, in its order *)
BusinessChecks(ctx, criteria) ==
  (IF ~IsNone(criteria.min_time_in_business_years)
   THEN <<check_time_in_business(ctx, Val(criteria.min_time_in_business_years))>>
   ELSE <<>>)
  \o (IF criteria.requires_homeowner = Some(TRUE)
      THEN <<check_homeowner(ctx)>> ELSE <<>>)
  \o (IF is_cdl_required(criteria, ctx) THEN <<check_cdl(ctx)>> ELSE <<>>)
  \o (IF ~IsNone(criteria.min_cdl_years)
      THEN <<check_cdl_years(ctx, Val(criteria.min_cdl_years))>> ELSE <<>>)
  \o (IF ~IsNone(criteria.min_industry_experience_years)
      THEN <<check_industry_experience(ctx,
               Val(criteria.min_industry_experience_years))>>
      ELSE <<>>)
  \o (IF ~IsNone(criteria.min_fleet_size)
      THEN <<check_fleet_size(ctx, Val(criteria.min_fleet_size))>> ELSE <<>>)
  \o (IF ~IsNone(criteria.min_annual_revenue)
      THEN <<check_annual_revenue(ctx, Val(criteria.min_annual_revenue))>>
      ELSE <<>>)

(* a business rule that reports the points earned without dividing by the
   points available *)
BusinessRequirementsRule_evaluate_raw_total(ctx, criteria) ==
  LET checks        == BusinessChecks(ctx, criteria)
      failed        == SelectSeq(checks, LAMBDA c : ~c.passed)
      failed_checks == [i \in 1..Len(failed) |-> failed[i].message]
      total_score   == RatSum([i \in 1..Len(checks) |-> checks[i].score])
  IN  IF failed_checks # <<>>
      THEN create_failed_result(Msg("Business Requirements", <<>>),
             failed_checks[1], Some(failed_checks))
      ELSE create_passed_result(Msg("Business Requirements", <<>>),
             Msg("All business requirements satisfied", <<>>),
             total_score, None)

(* BusinessRequirementsRule.evaluate and _build_result over AggregatedChecks *)
BusinessRequirementsRule_evaluate(ctx, criteria) ==
  LET checks        == BusinessChecks(ctx, criteria)
      failed        == SelectSeq(checks, LAMBDA c : ~c.passed)
      failed_checks == [i \in 1..Len(failed) |-> failed[i].message]
      passed        == SelectSeq(checks, LAMBDA c : c.passed)
      total_score   == RatSum([i \in 1..Len(passed) |-> passed[i].score])
      max_possible  == RatSum([i \in 1..Len(checks) |-> RatInt(checks[i].max_score)])
      normalized_score ==
        IF RatLT(RatInt(0), max_possible)
        THEN RatMul(RatDiv(total_score, max_possible), RatInt(100))
        ELSE RatInt(100)
  IN  IF failed_checks # <<>>
      THEN create_failed_result(Msg("Business Requirements", <<>>),
             failed_checks[1], Some(failed_checks))
      ELSE create_passed_result(Msg("Business Requirements", <<>>),
             Msg("All business requirements satisfied", <<>>),
             normalized_score, None)

-----------------------------------------------------------------------------
(* app/rules/criteria/credit_history.py *)

(* CreditHistoryRule._check_bankruptcy: a failed check's message, or None;
   criteria.get("max_bankruptcies", 999), .get("bankruptcy_min_discharge_years", 0) *)
check_bankruptcy(ctx, criteria) ==
  LET max_bankruptcies ==
        IF IsNone(criteria.max_bankruptcies) THEN 999
        ELSE Val(criteria.max_bankruptcies)
      min_discharge_years ==
        IF IsNone(criteria.bankruptcy_min_discharge_years) THEN 0
        ELSE Val(criteria.bankruptcy_min_discharge_years)
  IN  IF ~ctx.has_bankruptcy THEN None
      ELSE IF max_bankruptcies = 0
      THEN Some(Msg("Bankruptcy not allowed", <<>>))
      ELSE IF IsNone(ctx.bankruptcy_discharge_years)
      THEN Some(Msg("Active bankruptcy not allowed", <<>>))
      ELSE IF Val(ctx.bankruptcy_discharge_years) < min_discharge_years
      THEN Some(Msg("Bankruptcy discharged {:.1f} years ago, minimum {} years required",
                    <<Val(ctx.bankruptcy_discharge_years), min_discharge_years>>))
      ELSE None

(* CreditHistoryRule._check_open_judgements *)
check_open_judgements(ctx, criteria) ==
  LET max_judgements ==
        IF IsNone(criteria.max_open_judgements) THEN 999
        ELSE Val(criteria.max_open_judgements)
  IN  IF ~ctx.has_open_judgements THEN None
      ELSE IF max_judgements = 0
      THEN Some(Msg("Open judgements not allowed", <<>>))
      ELSE IF TruthyInt(ctx.judgement_amount)
              /\ TruthyInt(criteria.max_judgement_amount)
              /\ Val(ctx.judgement_amount) > Val(criteria.max_judgement_amount)
      THEN Some(Msg("Judgement amount ${:,} exceeds maximum ${:,}",
                    <<Val(ctx.judgement_amount), Val(criteria.max_judgement_amount)>>))
      ELSE None

(* CreditHistoryRule._check_tax_liens *)
check_tax_liens(ctx, criteria) ==
  LET max_liens ==
        IF IsNone(criteria.max_tax_liens) THEN 999 ELSE Val(criteria.max_tax_liens)
  IN  IF ~ctx.has_tax_liens THEN None
      ELSE IF max_liens = 0
      THEN Some(Msg("Tax liens not allowed", <<>>))
      ELSE IF TruthyInt(ctx.tax_lien_amount)
              /\ TruthyInt(criteria.max_tax_lien_amount)
              /\ Val(ctx.tax_lien_amount) > Val(criteria.max_tax_lien_amount)
      THEN Some(Msg("Tax lien amount ${:,} exceeds maximum ${:,}",
                    <<Val(ctx.tax_lien_amount), Val(criteria.max_tax_lien_amount)>>))
      ELSE None

(* CreditHistoryRule._check_foreclosure; criteria.get("allows_foreclosure", True) *)
check_foreclosure(ctx, criteria) ==
  IF ctx.has_foreclosure /\ criteria.allows_foreclosure = Some(FALSE)
  THEN Some(Msg("Foreclosure history not allowed", <<>>))
  ELSE None

(* CreditHistoryRule._check_repossession *)
check_repossession(ctx, criteria) ==
  IF ctx.has_repossession /\ criteria.allows_repossession = Some(FALSE)
  THEN Some(Msg("Repossession history not allowed", <<>>))
  ELSE None

(* CreditHistoryRule._calculate_score: max(60, 100 - max(0, 30 - years * 3)) *)
CreditHistoryRule_calculate_score(ctx) ==
  LET penalty ==
        IF ctx.has_bankruptcy /\ TruthyInt(ctx.bankruptcy_discharge_years)
        THEN RatMax(RatInt(0),
               RatSub(RatInt(30), Rat(Val(ctx.bankruptcy_discharge_years) * 3, 10)))
        ELSE RatInt(0)
  IN  RatMax(RatInt(60), RatSub(RatInt(100), penalty))

(* CreditHistoryRule._collect_failed_checks *)
collect_failed_checks(ctx, criteria) ==
  check_bankruptcy(ctx, criteria) \o check_open_judgements(ctx, criteria)
    \o check_tax_liens(ctx, criteria) \o check_foreclosure(ctx, criteria)
    \o check_repossession(ctx, criteria)

(* a credit history rule whose details keep the first failure only *)
CreditHistoryRule_evaluate_first_only(ctx, criteria) ==
  LET failed_checks == collect_failed_checks(ctx, criteria)
  IN  IF failed_checks # <<>>
      THEN create_failed_result(Msg("Credit History", <<>>),
             failed_checks[1], Some(<<failed_checks[1]>>))
      ELSE create_passed_result(Msg("Credit History", <<>>),
             Msg("Credit history meets requirements", <<>>),
             CreditHistoryRule_calculate_score(ctx), None)

(* CreditHistoryRule.evaluate *)
CreditHistoryRule_evaluate(ctx, criteria) ==
  LET failed_checks == collect_failed_checks(ctx, criteria)
  IN  IF failed_checks # <<>>
      THEN create_failed_result(Msg("Credit History", <<>>),
             failed_checks[1], Some(failed_checks))
      ELSE create_passed_result(Msg("Credit History", <<>>),
             Msg("Credit history meets requirements", <<>>),
             CreditHistoryRule_calculate_score(ctx), None)

-----------------------------------------------------------------------------
(* app/rules/registry.py: RuleRegistry.  The class attributes _rules (key ->
   rule class) and _instances (key -> cached instance) are the fields rules
   and instances of a registry value; constructed counts the rule objects
   built so far, which tells two instances of one class apart *)

(* the keys and classes the @RuleRegistry.register decorators of
   app/rules/criteria install when the package is imported *)
RepositoryRules ==
  [credit_score    |-> "CreditScoreRule",
   business        |-> "BusinessRequirementsRule",
   credit_history  |-> "CreditHistoryRule",
   equipment       |-> "EquipmentRule",
   term_matrix     |-> "TermMatrixRule",
   geographic      |-> "StateRestrictionRule",
   state_exclusion |-> "StateExclusionRule",
   industry        |-> "IndustryExclusionRule",
   loan_amount     |-> "LoanAmountRule",
   min_amount      |-> "MinAmountRule",
   max_amount      |-> "MaxAmountRule",
   transaction     |-> "TransactionTypeRule",
   private_party   |-> "PrivatePartyRule"]

(* issubclass(rule_class, Rule) *)
IsRuleClass(rule_class) ==
  \E k \in DOMAIN RepositoryRules : RepositoryRules[k] = rule_class

(* d[k] = v on a dict *)
SetItem(d, k, v) ==
  [x \in DOMAIN d \cup {k} |-> IF x = k THEN v ELSE d[x]]

(* the registry once app.rules.criteria is imported; nothing is instantiated
   before the first lookup *)
ImportRegistry ==
  [rules |-> RepositoryRules, instances |-> <<>>, constructed |-> 0]

(* what a call leaves behind: the exception raised (or None), the value
   returned (or None) and the registry afterwards *)
Raise(type, message, reg) ==
  [raised |-> Some([type |-> type, message |-> message]),
   value |-> None, registry |-> reg]

Return(v, reg) == [raised |-> None, value |-> Some(v), registry |-> reg]

KeyError(name, reg) ==
  Raise("KeyError", Msg("No rule registered with name: {}", <<name>>), reg)

(* RuleRegistry.register(name)(rule_class) *)
register(reg, name, rule_class) ==
  IF ~IsRuleClass(rule_class)
  THEN Raise("TypeError", Msg("{} must be a subclass of Rule", <<rule_class>>), reg)
  ELSE Return(rule_class,
              [reg EXCEPT !.rules = SetItem(reg.rules, name, rule_class)])

(* a lookup that takes the class out of _rules (pop rather than index) *)
get_rule_popping(reg, name) ==
  IF name \notin DOMAIN reg.rules THEN KeyError(name, reg)
  ELSE IF name \notin DOMAIN reg.instances
  THEN LET instance == [class |-> reg.rules[name], serial |-> reg.constructed + 1]
       IN  Return(instance,
                  [rules       |-> [x \in DOMAIN reg.rules \ {name} |-> reg.rules[x]],
                   instances   |-> SetItem(reg.instances, name, instance),
                   constructed |-> reg.constructed + 1])
  ELSE Return(reg.instances[name], reg)

(* RuleRegistry.get_rule(name), run without interruption *)
get_rule(reg, name) ==
  IF name \notin DOMAIN reg.rules THEN KeyError(name, reg)
  ELSE IF name \notin DOMAIN reg.instances
  THEN LET instance == [class |-> reg.rules[name], serial |-> reg.constructed + 1]
       IN  Return(instance,
                  [reg EXCEPT !.instances = SetItem(reg.instances, name, instance),
                              !.constructed = reg.constructed + 1])
  ELSE Return(reg.instances[name], reg)

(* a class lookup that answers None for a missing key, as _rules.get(name)
   would *)
get_rule_class_or_none(reg, name) ==
  IF name \notin DOMAIN reg.rules
  THEN [raised |-> None, value |-> None, registry |-> reg]
  ELSE Return(reg.rules[name], reg)

(* RuleRegistry.get_rule_class(name) *)
get_rule_class(reg, name) ==
  IF name \notin DOMAIN reg.rules THEN KeyError(name, reg)
  ELSE Return(reg.rules[name], reg)

(* RuleRegistry.clear() *)
clear(reg) == [reg EXCEPT !.rules = <<>>, !.instances = <<>>]

-----------------------------------------------------------------------------
(* app/rules/criteria/geographic.py *)

(* a state rule in which the allowed list overrides the excluded list *)
StateRestrictionRule_evaluate_allow_wins(ctx, criteria) ==
  LET state == Upper(ctx.state)
      rule_name == Msg("State Restriction", <<>>)
  IN  IF TruthyList(criteria.allowed_states)
         /\ InList(state, MapSeq(Upper, Val(criteria.allowed_states)))
      THEN create_passed_result(rule_name, Msg("State {} is allowed", <<state>>),
             RatInt(100), None)
      ELSE IF TruthyList(criteria.excluded_states)
              /\ InList(state, MapSeq(Upper, Val(criteria.excluded_states)))
      THEN create_failed_result(rule_name,
             Msg("State {} is excluded from this program", <<state>>), None)
      ELSE IF TruthyList(criteria.allowed_states)
      THEN create_failed_result(rule_name,
             Msg("State {} is not in the allowed states list", <<state>>), None)
      ELSE create_passed_result(rule_name, Msg("State {} is allowed", <<state>>),
             RatInt(100), None)

(* StateRestrictionRule.evaluate, registered as "geographic"; criteria =
   {"excluded_states"?, "allowed_states"?}, an absent key read as None *)
StateRestrictionRule_evaluate(ctx, criteria) ==
  LET state == Upper(ctx.state)
      rule_name == Msg("State Restriction", <<>>)
  IN  IF TruthyList(criteria.excluded_states)
         /\ InList(state, MapSeq(Upper, Val(criteria.excluded_states)))
      THEN create_failed_result(rule_name,
             Msg("State {} is excluded from this program", <<state>>), None)
      ELSE IF TruthyList(criteria.allowed_states)
              /\ ~InList(state, MapSeq(Upper, Val(criteria.allowed_states)))
      THEN create_failed_result(rule_name,
             Msg("State {} is not in the allowed states list", <<state>>), None)
      ELSE create_passed_result(rule_name, Msg("State {} is allowed", <<state>>),
             RatInt(100), None)

-----------------------------------------------------------------------------
(* app/rules/registry.py: the rule classes the @RuleRegistry.register
   decorators of app/rules/criteria install at import, looked up by key *)
get_rule_evaluate(name, ctx, criteria) ==
  CASE name = "credit_score"   -> CreditScoreRule_evaluate(ctx, criteria)
    [] name = "business"       -> BusinessRequirementsRule_evaluate(ctx, criteria)
    [] name = "credit_history" -> CreditHistoryRule_evaluate(ctx, criteria)
    [] name = "equipment"      -> EquipmentRule_evaluate(ctx, criteria)
    [] name = "loan_amount"    -> LoanAmountRule_evaluate(ctx, criteria)
    [] name = "geographic"     -> StateRestrictionRule_evaluate(ctx, criteria)

-----------------------------------------------------------------------------
(* app/rules/engine.py *)

(* ProgramMatchResult.failed_criteria_count *)
failed_criteria_count(p) ==
  Len(SelectSeq(p.criteria_results, LAMBDA r : ~r.passed))

(* a geographic check that reports a passing result as well *)
evaluate_geographic_restriction_reporting(ctx, geo_criteria) ==
  LET state == IF ctx.state # <<>> THEN Upper(ctx.state) ELSE <<>>
      fails ==
        \/ /\ TruthyList(geo_criteria.excluded_states)
           /\ InList(state, MapSeq(Upper, Val(geo_criteria.excluded_states)))
        \/ /\ TruthyList(geo_criteria.allowed_states)
           /\ ~InList(state, MapSeq(Upper, Val(geo_criteria.allowed_states)))
  IN  Some(RuleResult(~fails, Msg("State Restriction", <<>>),
             Msg("State {} checked", <<state>>),
             IF fails THEN RatInt(0) ELSE RatInt(100), None))

(* MatchingEngine._evaluate_geographic_restriction: a failing RuleResult, or
   None *)
evaluate_geographic_restriction(ctx, geo_criteria) ==
  LET state == IF ctx.state # <<>> THEN Upper(ctx.state) ELSE <<>>
  IN  IF TruthyList(geo_criteria.excluded_states)
         /\ InList(state, MapSeq(Upper, Val(geo_criteria.excluded_states)))
      THEN Some(RuleResult(FALSE, Msg("State Restriction", <<>>),
                  Msg("State {} is excluded by this lender", <<state>>),
                  RatInt(0), None))
      ELSE IF TruthyList(geo_criteria.allowed_states)
              /\ ~InList(state, MapSeq(Upper, Val(geo_criteria.allowed_states)))
      THEN Some(RuleResult(FALSE, Msg("State Restriction", <<>>),
                  Msg("State {} is not in the allowed list", <<state>>),
                  RatInt(0), None))
      ELSE None

(* MatchingEngine._evaluate_industry_restriction: only excluded_industries is
   read; the first excluded entry found inside the code or the name fails *)
evaluate_industry_restriction(ctx, industry_criteria) ==
  LET industry      == IF ctx.industry_code # <<>> THEN Lower(ctx.industry_code) ELSE <<>>
      industry_name == IF ctx.industry_name # <<>> THEN Lower(ctx.industry_name) ELSE <<>>
      excluded ==
        IF TruthyList(industry_criteria.excluded_industries)
        THEN MapSeq(Lower, Val(industry_criteria.excluded_industries))
        ELSE <<>>
      hits == SelectSeq(excluded,
                LAMBDA exc : Contains(industry, exc) \/ Contains(industry_name, exc))
  IN  IF hits # <<>>
      THEN Some(RuleResult(FALSE, Msg("Industry Restriction", <<>>),
                  Msg("Industry '{}' is excluded by this lender", <<hits[1]>>),
                  RatInt(0), None))
      ELSE None

(* MatchingEngine._evaluate_transaction_restriction *)
evaluate_transaction_restriction(ctx, txn_criteria) ==
  IF ctx.is_private_party /\ ~txn_criteria.allows_private_party
  THEN Some(RuleResult(FALSE, Msg("Transaction Type", <<>>),
              Msg("Private party sales are not allowed by this lender", <<>>),
              RatInt(0), None))
  ELSE IF ctx.transaction_type = <<"s","a","l","e","_","l","e","a","s","e","b","a","c","k">>
          /\ ~txn_criteria.allows_sale_leaseback
  THEN Some(RuleResult(FALSE, Msg("Transaction Type", <<>>),
              Msg("Sale-leaseback transactions are not allowed", <<>>),
              RatInt(0), None))
  ELSE IF ctx.transaction_type = <<"r","e","f","i","n","a","n","c","e">>
          /\ ~txn_criteria.allows_refinance
  THEN Some(RuleResult(FALSE, Msg("Transaction Type", <<>>),
              Msg("Refinance transactions are not allowed", <<>>),
              RatInt(0), None))
  ELSE None

(* MatchingEngine._evaluate_equipment_restriction *)
evaluate_equipment_restriction(ctx, equip_criteria) ==
  LET category == Lower(ctx.equipment_category)
  IN  IF TruthyList(equip_criteria.excluded_categories)
         /\ InList(category, MapSeq(Lower, Val(equip_criteria.excluded_categories)))
      THEN Some(RuleResult(FALSE, Msg("Equipment Restriction", <<>>),
                  Msg("Equipment category '{}' is not allowed", <<category>>),
                  RatInt(0), None))
      ELSE IF ~IsNone(equip_criteria.max_age_years)
              /\ ctx.equipment_age_years > Val(equip_criteria.max_age_years)
      THEN Some(RuleResult(FALSE, Msg("Equipment Age", <<>>),
                  Msg("Equipment is too old ({} years)", <<ctx.equipment_age_years>>),
                  RatInt(0), None))
      ELSE None

(* a restriction check that stops at the first failing restriction *)
evaluate_restrictions_first_only(ctx, restrictions) ==
  LET geo == IF ~IsNone(restrictions.geographic)
             THEN evaluate_geographic_restriction(ctx, Val(restrictions.geographic))
             ELSE <<>>
      ind == IF ~IsNone(restrictions.industry)
             THEN evaluate_industry_restriction(ctx, Val(restrictions.industry))
             ELSE <<>>
      txn == IF ~IsNone(restrictions.transaction)
             THEN evaluate_transaction_restriction(ctx, Val(restrictions.transaction))
             ELSE <<>>
      eqp == IF ~IsNone(restrictions.equipment)
             THEN evaluate_equipment_restriction(ctx, Val(restrictions.equipment))
             ELSE <<>>
  IN  IF geo # <<>> THEN geo
      ELSE IF ind # <<>> THEN ind
      ELSE IF txn # <<>> THEN txn
      ELSE eqp

(* MatchingEngine._evaluate_restrictions: every declared restriction is
   evaluated, and the failing results are returned in the order geographic,
   industry, transaction, equipment *)
evaluate_restrictions(ctx, restrictions) ==
  (IF ~IsNone(restrictions.geographic)
   THEN evaluate_geographic_restriction(ctx, Val(restrictions.geographic))
   ELSE <<>>)
  \o (IF ~IsNone(restrictions.industry)
      THEN evaluate_industry_restriction(ctx, Val(restrictions.industry))
      ELSE <<>>)
  \o (IF ~IsNone(restrictions.transaction)
      THEN evaluate_transaction_restriction(ctx, Val(restrictions.transaction))
      ELSE <<>>)
  \o (IF ~IsNone(restrictions.equipment)
      THEN evaluate_equipment_restriction(ctx, Val(restrictions.equipment))
      ELSE <<>>)

(* MatchingEngine._evaluate_criteria: the RuleResults of a program's criteria
   sections, in the order the code appends them.  Each dict carries only the
   keys the code copies; a registered rule is not called with an empty dict;
   the geographic, industry and transaction sections go through the engine's
   own restriction checks and add a result only when they fail *)
evaluate_criteria(ctx, criteria) ==
  LET business_dict ==
        IF IsNone(criteria.business) THEN None
        ELSE LET b == Val(criteria.business)
             IN  Some([min_time_in_business_years    |-> b.min_time_in_business_years,
                       requires_homeowner            |-> b.requires_homeowner,
                       requires_cdl                  |-> b.requires_cdl,
                       min_cdl_years                 |-> b.min_cdl_years,
                       min_industry_experience_years |-> b.min_industry_experience_years,
                       min_fleet_size                |-> b.min_fleet_size,
                       min_annual_revenue            |-> None])
      history_dict ==
        IF IsNone(criteria.credit_history) THEN None
        ELSE LET h == Val(criteria.credit_history)
             IN  Some([max_bankruptcies               |-> h.max_bankruptcies,
                       bankruptcy_min_discharge_years |-> h.bankruptcy_min_discharge_years,
                       max_open_judgements            |-> h.max_open_judgements,
                       allows_foreclosure             |-> h.allows_foreclosure,
                       allows_repossession            |-> h.allows_repossession,
                       max_tax_liens                  |-> h.max_tax_liens,
                       max_judgement_amount           |-> None,
                       max_tax_lien_amount            |-> None])
      equip_dict ==
        IF IsNone(criteria.equipment) THEN None
        ELSE LET e == Val(criteria.equipment)
             IN  Some([max_age_years |-> e.max_age_years,
                       max_mileage   |-> e.max_mileage,
                       max_hours     |-> None])
      amount_dict ==
        IF IsNone(criteria.loan_amount) THEN None
        ELSE LET a == Val(criteria.loan_amount)
             IN  Some([min_amount |-> a.min_amount, max_amount |-> a.max_amount])
      NonEmpty(d) == \E k \in DOMAIN d : ~IsNone(d[k])
  IN  (IF ~IsNone(criteria.credit_score)
       THEN <<get_rule_evaluate("credit_score", ctx,
                [type |-> Val(criteria.credit_score).type,
                 min  |-> Val(criteria.credit_score).min])>>
       ELSE <<>>)
      \o (IF ~IsNone(business_dict) /\ NonEmpty(Val(business_dict))
          THEN <<get_rule_evaluate("business", ctx, Val(business_dict))>>
          ELSE <<>>)
      \o (IF ~IsNone(history_dict) /\ NonEmpty(Val(history_dict))
          THEN <<get_rule_evaluate("credit_history", ctx, Val(history_dict))>>
          ELSE <<>>)
      \o (IF ~IsNone(equip_dict) /\ NonEmpty(Val(equip_dict))
          THEN <<get_rule_evaluate("equipment", ctx, Val(equip_dict))>>
          ELSE <<>>)
      \o (IF ~IsNone(amount_dict) /\ NonEmpty(Val(amount_dict))
          THEN <<get_rule_evaluate("loan_amount", ctx, Val(amount_dict))>>
          ELSE <<>>)
      \o (IF ~IsNone(criteria.geographic)
          THEN evaluate_geographic_restriction(ctx, Val(criteria.geographic))
          ELSE <<>>)
      \o (IF ~IsNone(criteria.industry)
          THEN evaluate_industry_restriction(ctx, Val(criteria.industry))
          ELSE <<>>)
      \o (IF ~IsNone(criteria.transaction)
          THEN evaluate_transaction_restriction(ctx, Val(criteria.transaction))
          ELSE <<>>)

(* a program-bounds check that forgets the maximum *)
check_amount_bounds_min_only(ctx, program) ==
  IF ~IsNone(program.min_amount) /\ ctx.loan_amount < Val(program.min_amount)
  THEN <<[reason |-> Msg("Loan amount ${} below minimum ${}",
                         <<FormatDollars(ctx.loan_amount),
                           FormatDollars(Val(program.min_amount))>>),
          result |-> RuleResult(FALSE, Msg("Minimum Loan Amount", <<>>),
                       Msg("Loan amount below program minimum", <<>>),
                       RatInt(0), None)]>>
  ELSE <<>>

(* the program-bounds part of MatchingEngine._evaluate_program: for each
   violated bound, the rejection reason and the RuleResult it appends *)
check_amount_bounds(ctx, program) ==
  (IF ~IsNone(program.min_amount) /\ ctx.loan_amount < Val(program.min_amount)
   THEN <<[reason |-> Msg("Loan amount ${} below minimum ${}",
                          <<FormatDollars(ctx.loan_amount),
                            FormatDollars(Val(program.min_amount))>>),
           result |-> RuleResult(FALSE, Msg("Minimum Loan Amount", <<>>),
                        Msg("Loan amount below program minimum", <<>>),
                        RatInt(0), None)]>>
   ELSE <<>>)
  \o (IF ~IsNone(program.max_amount) /\ ctx.loan_amount > Val(program.max_amount)
      THEN <<[reason |-> Msg("Loan amount ${} exceeds maximum ${}",
                             <<FormatDollars(ctx.loan_amount),
                               FormatDollars(Val(program.max_amount))>>),
              result |-> RuleResult(FALSE, Msg("Maximum Loan Amount", <<>>),
                           Msg("Loan amount exceeds program maximum", <<>>),
                           RatInt(0), None)]>>
      ELSE <<>>)

(* a fit score averaged over the passed results only *)
calculate_fit_score_over_passed(criteria_results, is_eligible) ==
  LET passed == SelectSeq(criteria_results, LAMBDA r : r.passed)
      passed_scores == [i \in 1..Len(passed) |-> passed[i].score]
  IN  IF criteria_results # <<>>
      THEN IF passed_scores # <<>>
           THEN RatDiv(RatSum(passed_scores), RatInt(Len(passed_scores)))
           ELSE RatInt(0)
      ELSE IF is_eligible THEN RatInt(100) ELSE RatInt(0)

(* the fit-score part of MatchingEngine._evaluate_program *)
calculate_fit_score(criteria_results, is_eligible) ==
  LET passed == SelectSeq(criteria_results, LAMBDA r : r.passed)
      passed_scores == [i \in 1..Len(passed) |-> passed[i].score]
  IN  IF criteria_results # <<>>
      THEN IF passed_scores # <<>>
           THEN RatDiv(RatSum(passed_scores), RatInt(Len(criteria_results)))
           ELSE RatInt(0)
      ELSE IF is_eligible THEN RatInt(100) ELSE RatInt(0)

(* a ProgramMatchResult that records the reason of the first failed criteria
   section only *)
program_match_result_first_reason_only(program, bounds, from_criteria) ==
  LET from_bounds      == [i \in 1..Len(bounds) |-> bounds[i].result]
      failed_criteria  == SelectSeq(from_criteria, LAMBDA cr : ~cr.passed)
      criteria_results == from_bounds \o from_criteria
      rejection_reasons ==
        [i \in 1..Len(bounds) |-> bounds[i].reason]
          \o (IF failed_criteria # <<>> THEN <<failed_criteria[1].message>> ELSE <<>>)
      is_eligible == bounds = <<>> /\ failed_criteria = <<>>
  IN  [program_id        |-> program.id,
       program_name      |-> program.name,
       is_eligible       |-> is_eligible,
       fit_score         |-> calculate_fit_score(criteria_results, is_eligible),
       criteria_results  |-> criteria_results,
       rejection_reasons |-> rejection_reasons,
       max_term_months   |-> program.max_term_months]

(* the ProgramMatchResult MatchingEngine._evaluate_program fills in: bounds
   are the violated program bounds and from_criteria the RuleResults of the
   criteria sections; every failed result makes the program ineligible and
   the message of every failed criteria result is a rejection reason *)
program_match_result(program, bounds, from_criteria) ==
  LET from_bounds      == [i \in 1..Len(bounds) |-> bounds[i].result]
      failed_criteria  == SelectSeq(from_criteria, LAMBDA cr : ~cr.passed)
      criteria_results == from_bounds \o from_criteria
      rejection_reasons ==
        [i \in 1..Len(bounds) |-> bounds[i].reason]
          \o [i \in 1..Len(failed_criteria) |-> failed_criteria[i].message]
      is_eligible == bounds = <<>> /\ failed_criteria = <<>>
  IN  [program_id        |-> program.id,
       program_name      |-> program.name,
       is_eligible       |-> is_eligible,
       fit_score         |-> calculate_fit_score(criteria_results, is_eligible),
       criteria_results  |-> criteria_results,
       rejection_reasons |-> rejection_reasons,
       max_term_months   |-> program.max_term_months]

(* MatchingEngine._evaluate_program; program.criteria is never None
   (default_factory=ProgramCriteria) *)
evaluate_program(ctx, program) ==
  program_match_result(program, check_amount_bounds(ctx, program),
                       evaluate_criteria(ctx, program.criteria))

(* a selection in which a later program of the same fit score wins *)
RECURSIVE MaxByFitScore_last(_)
MaxByFitScore_last(ps) ==
  IF Len(ps) = 1 THEN ps[1]
  ELSE LET best == MaxByFitScore_last(SubSeq(ps, 1, Len(ps) - 1))
           last == ps[Len(ps)]
       IN  IF RatLE(best.fit_score, last.fit_score) THEN last ELSE best

(* max(eligible_programs, key=fit_score): the first of the largest *)
RECURSIVE MaxByFitScore(_)
MaxByFitScore(ps) ==
  IF Len(ps) = 1 THEN ps[1]
  ELSE LET best == MaxByFitScore(SubSeq(ps, 1, Len(ps) - 1))
           last == ps[Len(ps)]
       IN  IF RatLT(best.fit_score, last.fit_score) THEN last ELSE best

(* a selection in which a later program with as few failures wins *)
RECURSIVE MinByFailedCount_last(_)
MinByFailedCount_last(ps) ==
  IF Len(ps) = 1 THEN ps[1]
  ELSE LET best == MinByFailedCount_last(SubSeq(ps, 1, Len(ps) - 1))
           last == ps[Len(ps)]
       IN  IF failed_criteria_count(last) <= failed_criteria_count(best)
           THEN last ELSE best

(* min(program_results, key=failed_criteria_count): the first of the smallest *)
RECURSIVE MinByFailedCount(_)
MinByFailedCount(ps) ==
  IF Len(ps) = 1 THEN ps[1]
  ELSE LET best == MinByFailedCount(SubSeq(ps, 1, Len(ps) - 1))
           last == ps[Len(ps)]
       IN  IF failed_criteria_count(last) < failed_criteria_count(best)
           THEN last ELSE best

(* LenderMatchResult(lender_id=policy.id, ..., is_eligible=False) *)
new_lender_result(pol) ==
  [lender_id |-> pol.id, is_eligible |-> FALSE, best_program |-> None,
   fit_score |-> RatInt(0), program_results |-> <<>>,
   global_rejection_reasons |-> <<>>, rank |-> None]

(* a selection that marks the lender eligible without recording the program *)
select_best_program_unrecorded(result, program_results) ==
  LET eligible_programs == SelectSeq(program_results, LAMBDA p : p.is_eligible)
  IN  IF eligible_programs # <<>>
      THEN [result EXCEPT !.is_eligible = TRUE,
                          !.fit_score = MaxByFitScore(eligible_programs).fit_score,
                          !.program_results = program_results]
      ELSE IF program_results # <<>>
      THEN LET closest == MinByFailedCount(program_results)
           IN  [result EXCEPT !.best_program = Some(closest),
                              !.fit_score = closest.fit_score,
                              !.program_results = program_results]
      ELSE [result EXCEPT !.program_results = program_results]

(* the selection at the end of MatchingEngine.evaluate_lender: the best
   eligible program, or else the closest one *)
select_best_program(result, program_results) ==
  LET eligible_programs == SelectSeq(program_results, LAMBDA p : p.is_eligible)
  IN  IF eligible_programs # <<>>
      THEN LET best == MaxByFitScore(eligible_programs)
           IN  [result EXCEPT !.is_eligible = TRUE, !.best_program = Some(best),
                              !.fit_score = best.fit_score,
                              !.program_results = program_results]
      ELSE IF program_results # <<>>
      THEN LET closest == MinByFailedCount(program_results)
           IN  [result EXCEPT !.best_program = Some(closest),
                              !.fit_score = closest.fit_score,
                              !.program_results = program_results]
      ELSE [result EXCEPT !.program_results = program_results]

(* the part of MatchingEngine.evaluate_lender after the restrictions: every
   program is evaluated, in the policy's order, then one is selected *)
evaluate_programs(ctx, pol, result) ==
  select_best_program(result,
    [i \in 1..Len(pol.programs) |-> evaluate_program(ctx, pol.programs[i])])

(* the LenderMatchResult after the restriction step: the message of every
   failed restriction result is a global rejection reason *)
restricted_result(pol, restriction_results) ==
  LET failed_restrictions == SelectSeq(restriction_results, LAMBDA r : ~r.passed)
  IN  [new_lender_result(pol) EXCEPT
         !.global_rejection_reasons =
            [i \in 1..Len(failed_restrictions) |-> failed_restrictions[i].message]]

(* an evaluation that records the failed restrictions and goes on to the
   programs *)
programs_unless_restricted_no_return(ctx, pol, result) ==
  evaluate_programs(ctx, pol, result)

(* the early return of MatchingEngine.evaluate_lender: with a global
   rejection reason the result is returned as it is *)
programs_unless_restricted(ctx, pol, result) ==
  IF result.global_rejection_reasons # <<>> THEN result
  ELSE evaluate_programs(ctx, pol, result)

(* MatchingEngine.evaluate_lender *)
evaluate_lender(ctx, pol) ==
  programs_unless_restricted(ctx, pol,
    restricted_result(pol,
      IF ~IsNone(pol.restrictions)
      THEN evaluate_restrictions(ctx, Val(pol.restrictions))
      ELSE <<>>))

-----------------------------------------------------------------------------
(* The engine and the service on a registry: MatchingEngine.registry is the
   RuleRegistry class, and _evaluate_criteria calls registry.get_rule for
   each of the five sections it hands to a rule *)

(* the keys MatchingEngine._evaluate_criteria looks up, in the order of its
   get_rule calls: one for each of these sections that is present.  The
   geographic, industry and transaction sections go to the engine's own
   checks and look nothing up *)
criteria_lookups(criteria) ==
  (IF ~IsNone(criteria.credit_score) THEN <<"credit_score">> ELSE <<>>)
  \o (IF ~IsNone(criteria.business) THEN <<"business">> ELSE <<>>)
  \o (IF ~IsNone(criteria.credit_history) THEN <<"credit_history">> ELSE <<>>)
  \o (IF ~IsNone(criteria.equipment) THEN <<"equipment">> ELSE <<>>)
  \o (IF ~IsNone(criteria.loan_amount) THEN <<"loan_amount">> ELSE <<>>)

(* the lookups of the programs from the n-th on, in policy order *)
RECURSIVE program_lookups(_, _)
program_lookups(programs, n) ==
  IF n > Len(programs) THEN <<>>
  ELSE criteria_lookups(programs[n].criteria) \o program_lookups(programs, n + 1)

(* the lookups of one evaluate_lender call: none when a restriction fails,
   since no program is evaluated then *)
lender_lookups(ctx, pol) ==
  IF restricted_result(pol,
       IF ~IsNone(pol.restrictions)
       THEN evaluate_restrictions(ctx, Val(pol.restrictions))
       ELSE <<>>).global_rejection_reasons # <<>>
  THEN <<>>
  ELSE program_lookups(pol.programs, 1)

(* lookups that go on after a key that is not registered, as
   registry._rules.get(name) would *)
RECURSIVE get_rules_lenient(_, _)
get_rules_lenient(reg, names) ==
  IF names = <<>> THEN Return(<<>>, reg)
  ELSE LET got == get_rule(reg, names[1])
       IN  get_rules_lenient(got.registry, Tail(names))

(* the get_rule calls of an evaluation, one after the other: the first
   KeyError propagates and ends the evaluation; the instances built before it
   stay cached *)
RECURSIVE get_rules(_, _)
get_rules(reg, names) ==
  IF names = <<>> THEN Return(<<>>, reg)
  ELSE LET got == get_rule(reg, names[1])
       IN  IF got.raised # None THEN got
           ELSE get_rules(got.registry, Tail(names))

(* MatchingEngine.evaluate_lender on the registry reg: every rule object is
   truthy and evaluates as its class does, so that with every lookup
   answered the result is evaluate_lender(ctx, pol) *)
engine_evaluate_lender(reg, ctx, pol) ==
  LET looked_up == get_rules(reg, lender_lookups(ctx, pol))
  IN  IF looked_up.raised # None THEN looked_up
      ELSE Return(evaluate_lender(ctx, pol), looked_up.registry)

(* the loop of LenderMatchingService.match_application: the policies are
   evaluated in list order, and an exception of evaluate_lender leaves the
   loop and the method, so that the results collected so far are lost *)
RECURSIVE evaluate_policies(_, _, _, _)
after_evaluate_lender(got, ctx, ps, evaluated) ==
  IF got.raised # None THEN got
  ELSE evaluate_policies(got.registry, ctx, ps, evaluated \o <<Val(got.value)>>)

evaluate_policies(reg, ctx, ps, evaluated) ==
  IF Len(evaluated) = Len(ps) THEN Return(evaluated, reg)
  ELSE after_evaluate_lender(
         engine_evaluate_lender(reg, ctx, ps[Len(evaluated) + 1]),
         ctx, ps, evaluated)

-----------------------------------------------------------------------------
(* app/services/matching_service.py *)

(* a sort key that leaves the eligibility out *)
KeyLT_score_only(a, b) == RatLT(a.fit_score, b.fit_score)

(* the sort key (m.is_eligible, m.fit_score) compared as Python compares
   tuples: False < True, then the fit scores *)
KeyLT(a, b) ==
  \/ ~a.is_eligible /\ b.is_eligible
  \/ a.is_eligible = b.is_eligible /\ RatLT(a.fit_score, b.fit_score)

(* a descending sort that puts an entry before the earlier entries of the
   same key *)
RECURSIVE SortedOrder_unstable(_, _)
SortedOrder_unstable(ms, n) ==
  IF n = 0 THEN <<>>
  ELSE LET prev == SortedOrder_unstable(ms, n - 1)
           before == SelectSeq(prev, LAMBDA i : KeyLT(ms[n], ms[i]))
           after  == SelectSeq(prev, LAMBDA i : ~KeyLT(ms[n], ms[i]))
       IN  before \o <<n>> \o after

(* sorted(matches, key=..., reverse=True) as the indices of matches in sorted
   order: descending by key, entries with equal keys in their original order *)
RECURSIVE SortedOrder(_, _)
SortedOrder(ms, n) ==
  IF n = 0 THEN <<>>
  ELSE LET prev == SortedOrder(ms, n - 1)
           before == SelectSeq(prev, LAMBDA i : ~KeyLT(ms[i], ms[n]))
           after  == SelectSeq(prev, LAMBDA i : KeyLT(ms[i], ms[n]))
       IN  before \o <<n>> \o after

(* a ranking that counts from 0, as enumerate does without start=1 *)
build_result_rank_from_zero(ms) ==
  LET order == SortedOrder(ms, Len(ms))
      sorted_matches ==
        [r \in 1..Len(ms) |-> [ms[order[r]] EXCEPT !.rank = Some(r - 1)]]
      eligible_matches == SelectSeq(sorted_matches, LAMBDA m : m.is_eligible)
  IN  [matches         |-> sorted_matches,
       best_match      |-> IF eligible_matches # <<>>
                           THEN Some(eligible_matches[1]) ELSE None,
       total_evaluated |-> Len(ms),
       total_eligible  |-> Len(eligible_matches)]

(* a result whose best match is the top entry whether or not it is eligible *)
build_result_best_is_first(ms) ==
  LET order == SortedOrder(ms, Len(ms))
      sorted_matches ==
        [r \in 1..Len(ms) |-> [ms[order[r]] EXCEPT !.rank = Some(r)]]
      eligible_matches == SelectSeq(sorted_matches, LAMBDA m : m.is_eligible)
  IN  [matches         |-> sorted_matches,
       best_match      |-> IF sorted_matches # <<>>
                           THEN Some(sorted_matches[1]) ELSE None,
       total_evaluated |-> Len(ms),
       total_eligible  |-> Len(eligible_matches)]

(* LenderMatchingService._build_result *)
build_result(ms) ==
  LET order == SortedOrder(ms, Len(ms))
      sorted_matches ==
        [r \in 1..Len(ms) |-> [ms[order[r]] EXCEPT !.rank = Some(r)]]
      eligible_matches == SelectSeq(sorted_matches, LAMBDA m : m.is_eligible)
  IN  [matches         |-> sorted_matches,
       best_match      |-> IF eligible_matches # <<>>
                           THEN Some(eligible_matches[1]) ELSE None,
       total_evaluated |-> Len(ms),
       total_eligible  |-> Len(eligible_matches)]

(* the list match_application evaluated, as it is after _build_result: the
   rank is assigned on the LenderMatchResult objects themselves, which the
   pre-sort list shares with the sorted one *)
ranked_in_place(ms) ==
  LET order == SortedOrder(ms, Len(ms))
  IN  [j \in 1..Len(ms) |->
         [ms[j] EXCEPT !.rank = Some(CHOOSE r \in 1..Len(ms) : order[r] = j)]]

-----------------------------------------------------------------------------
(* Inputs: the applications and policies the calls are made with *)

MaxPrograms == 2

MaxLenders == 3

S_fico == <<"f","i","c","o">>

S_transunion == <<"t","r","a","n","s","u","n","i","o","n">>

S_purchase == <<"p","u","r","c","h","a","s","e">>

S_refinance == <<"r","e","f","i","n","a","n","c","e">>

S_sale_leaseback == <<"s","a","l","e","_","l","e","a","s","e","b","a","c","k">>

(* lender ids, which are also the stems of the policy files *)
open_bank == <<"o","p","e","n","_","b","a","n","k">>

tier_bank == <<"t","i","e","r","_","b","a","n","k">>

tier_credit == <<"t","i","e","r","_","c","r","e","d","i","t">>

texas_bank == <<"t","e","x","a","s","_","b","a","n","k">>

standard_bank == <<"s","t","a","n","d","a","r","d","_","b","a","n","k">>

seasoned_bank == <<"s","e","a","s","o","n","e","d","_","b","a","n","k">>

empty_bank == <<"e","m","p","t","y","_","b","a","n","k">>

regional_bank == <<"r","e","g","i","o","n","a","l","_","b","a","n","k">>

local_bank == <<"l","o","c","a","l","_","b","a","n","k">>

citizen_bank == <<"c","i","t","i","z","e","n","_","b","a","n","k">>

builders_bank == <<"b","u","i","l","d","e","r","s","_","b","a","n","k">>

growers_bank == <<"g","r","o","w","e","r","s","_","b","a","n","k">>

hours_bank == <<"h","o","u","r","s","_","b","a","n","k">>

ghost_bank == <<"g","h","o","s","t","_","b","a","n","k">>

broken_bank == <<"b","r","o","k","e","n","_","b","a","n","k">>

any_lender == <<"l","e","n","d","e","r">>

(* the stem of a template file *)
template_stem == <<"_","t","e","m","p","l","a","t","e">>

(* EvaluationContext(application_id=...): every field at its default *)
DefaultContext ==
  [fico_score |-> None, transunion_score |-> None, experian_score |-> None,
   equifax_score |-> None, paynet_score |-> None,
   years_in_business |-> 0, industry_code |-> <<>>, industry_name |-> <<>>,
   state |-> <<>>, annual_revenue |-> None, fleet_size |-> None,
   is_homeowner |-> FALSE, has_cdl |-> FALSE, cdl_years |-> None,
   industry_experience_years |-> None,
   has_bankruptcy |-> FALSE, bankruptcy_discharge_years |-> None,
   has_open_judgements |-> FALSE, judgement_amount |-> None,
   has_foreclosure |-> FALSE, has_repossession |-> FALSE,
   has_tax_liens |-> FALSE, tax_lien_amount |-> None,
   loan_amount |-> 0, transaction_type |-> S_purchase, is_private_party |-> FALSE,
   equipment_category |-> <<>>, equipment_age_years |-> 0,
   equipment_mileage |-> None, equipment_hours |-> None]

(* an established Texas business buying from a dealer *)
CleanProfile ==
  [DefaultContext EXCEPT
     !.state = <<"t","x">>, !.industry_code = <<"1","1","1">>,
     !.industry_name = <<"F","a","r","m">>,
     !.years_in_business = 50, !.is_homeowner = TRUE,
     !.equipment_category = <<"T","r","a","c","t","o","r">>,
     !.equipment_age_years = 3, !.equipment_mileage = Some(100)]

(* a young California taxi business refinancing a privately sold old truck,
   with a recent bankruptcy and a foreclosure *)
FlaggedProfile ==
  [DefaultContext EXCEPT
     !.state = <<"c","a">>, !.industry_code = <<"4","8","5">>,
     !.industry_name = <<"C","a","b","s">>,
     !.years_in_business = 10, !.is_homeowner = FALSE,
     !.has_bankruptcy = TRUE, !.bankruptcy_discharge_years = Some(30),
     !.has_foreclosure = TRUE,
     !.transaction_type = S_refinance, !.is_private_party = TRUE,
     !.equipment_category = <<"S","e","m","i">>,
     !.equipment_age_years = 12, !.equipment_mileage = Some(500000),
     !.equipment_hours = Some(12000)]

(* a California business with an old discharged bankruptcy, otherwise sound *)
MixedProfile ==
  [DefaultContext EXCEPT
     !.state = <<"C","A">>, !.industry_code = <<"2","3","6">>,
     !.industry_name = <<"B","u","i","l","d">>,
     !.years_in_business = 25, !.is_homeowner = TRUE,
     !.has_bankruptcy = TRUE, !.bankruptcy_discharge_years = Some(60),
     !.transaction_type = S_sale_leaseback,
     !.equipment_category = <<"c","r","a","n","e">>,
     !.equipment_age_years = 5, !.equipment_hours = Some(5)]

Profiles == {CleanProfile, FlaggedProfile, MixedProfile}

FicoScores == {None, Some(690), Some(720), Some(800)}

LoanAmounts == {4950, 15000, 25050}

Contexts ==
  {[prof EXCEPT !.fico_score = f, !.loan_amount = a] :
     prof \in Profiles, f \in FicoScores, a \in LoanAmounts}

NoGeographic == [allowed_states |-> None, excluded_states |-> None]

NoIndustry == [allowed_industries |-> None, excluded_industries |-> None]

(* TransactionCriteria(): everything allowed *)
NoTransaction ==
  [allows_private_party |-> TRUE, allows_sale_leaseback |-> TRUE,
   allows_refinance |-> TRUE]

NoEquipment ==
  [max_age_years |-> None, max_mileage |-> None, max_hours |-> None,
   allowed_categories |-> None, excluded_categories |-> None]

NoBusiness ==
  [min_time_in_business_years |-> None, requires_homeowner |-> None,
   requires_cdl |-> None, min_cdl_years |-> None,
   min_industry_experience_years |-> None, min_fleet_size |-> None,
   requires_us_citizen |-> None]

NoCreditHistory ==
  [max_bankruptcies |-> None, bankruptcy_min_discharge_years |-> None,
   max_open_judgements |-> None, max_judgement_amount |-> None,
   allows_foreclosure |-> None, allows_repossession |-> None,
   max_tax_liens |-> None]

(* ProgramCriteria(): no section present *)
NoCriteria ==
  [credit_score |-> None, business |-> None, credit_history |-> None,
   equipment |-> None, geographic |-> None, industry |-> None,
   transaction |-> None, loan_amount |-> None]

(* LenderRestrictions(): declared, nothing in it *)
NoRestrictions ==
  [geographic |-> None, industry |-> None, transaction |-> None,
   equipment |-> None]

ExcludeCA == [NoGeographic EXCEPT !.excluded_states = Some(<< <<"C","A">> >>)]

AllowTX == [NoGeographic EXCEPT !.allowed_states = Some(<< <<"T","X">> >>)]

ExcludeCabs ==
  [NoIndustry EXCEPT
     !.excluded_industries = Some(<< <<"C","a","s","i","n","o">>, <<"C","A","B">> >>)]

DealerPurchaseOnly ==
  [allows_private_party |-> FALSE, allows_sale_leaseback |-> TRUE,
   allows_refinance |-> FALSE]

NoOldSemis ==
  [NoEquipment EXCEPT !.excluded_categories = Some(<< <<"s","e","m","i">> >>),
                      !.max_age_years = Some(4)]

RestrictionSets ==
  { None,
    Some(NoRestrictions),
    Some([NoRestrictions EXCEPT !.geographic = Some(ExcludeCA)]),
    Some([NoRestrictions EXCEPT !.geographic = Some(AllowTX),
                                !.industry = Some(ExcludeCabs)]),
    Some([NoRestrictions EXCEPT !.transaction = Some(DealerPurchaseOnly),
                                !.equipment = Some(NoOldSemis)]),
    Some([geographic |-> Some(ExcludeCA), industry |-> Some(ExcludeCabs),
          transaction |-> Some(DealerPurchaseOnly),
          equipment |-> Some(NoOldSemis)]) }

Program(id, min_amount, max_amount, criteria) ==
  [id |-> id, name |-> id, min_amount |-> min_amount, max_amount |-> max_amount,
   max_term_months |-> None, criteria |-> criteria]

Fico(min) == Some([type |-> S_fico, min |-> min])

ProgramCatalogue ==
  { Program("open", None, None, NoCriteria),
    Program("standard", Some(10000), Some(20000),
      [NoCriteria EXCEPT
         !.credit_score = Fico(700),
         !.business = Some([NoBusiness EXCEPT !.min_time_in_business_years = Some(20)])]),
    Program("tier_1", Some(10000), None,
      [NoCriteria EXCEPT
         !.credit_score = Fico(750),
         !.loan_amount = Some([min_amount |-> Some(10000), max_amount |-> Some(20000)])]),
    Program("tier_2", None, None, [NoCriteria EXCEPT !.credit_score = Fico(700)]),
    Program("tier_2b", None, None, [NoCriteria EXCEPT !.credit_score = Fico(700)]),
    Program("capped", None, Some(20000), NoCriteria),
    Program("seasoned", None, None,
      [NoCriteria EXCEPT
         !.business = Some([NoBusiness EXCEPT !.min_time_in_business_years = Some(50)])]),
    Program("clean_history", None, None,
      [NoCriteria EXCEPT
         !.business = Some([NoBusiness EXCEPT !.requires_homeowner = Some(TRUE),
                                              !.requires_cdl = Some("conditional"),
                                              !.requires_us_citizen = Some(TRUE)]),
         !.credit_history =
            Some([NoCreditHistory EXCEPT !.max_bankruptcies = Some(1),
                                         !.bankruptcy_min_discharge_years = Some(50),
                                         !.allows_foreclosure = Some(FALSE)])]),
    Program("equipment", None, None,
      [NoCriteria EXCEPT
         !.credit_score = Some([type |-> S_transunion, min |-> 650]),
         !.equipment = Some([NoEquipment EXCEPT !.max_age_years = Some(10),
                                                !.max_mileage = Some(400000),
                                                !.max_hours = Some(10000)])]),
    Program("local", None, None,
      [NoCriteria EXCEPT
         !.equipment = Some([NoEquipment EXCEPT !.max_age_years = Some(10)]),
         !.geographic = Some(AllowTX),
         !.industry = Some(ExcludeCabs),
         !.transaction = Some(DealerPurchaseOnly)]) }

(* the tuples of at most n distinct elements of S *)
RECURSIVE InjectiveSeqs(_, _)
InjectiveSeqs(S, n) ==
  IF n = 0 THEN {<<>>}
  ELSE LET shorter == InjectiveSeqs(S, n - 1)
           longest == {t \in shorter : Len(t) = n - 1}
       IN  shorter \cup
           UNION {{Append(t, x) : x \in {y \in S : ~InList(y, t)}} : t \in longest}

ProgramLists == InjectiveSeqs(ProgramCatalogue, MaxPrograms)

(* the policies evaluate_lender is called with: a policy without
   restrictions offers any list of programs; a policy that declares
   restrictions offers at most one program, since its programs are either
   not evaluated at all or evaluated as those of an unrestricted policy *)
Policies ==
  {[id |-> any_lender, version |-> 1, restrictions |-> None, programs |-> ps] : ps \in ProgramLists}
  \cup {[id |-> any_lender, version |-> 1, restrictions |-> r, programs |-> ps] :
          r \in RestrictionSets \ {None}, ps \in InjectiveSeqs(ProgramCatalogue, 1)}

CatalogueProgram(id) == CHOOSE p \in ProgramCatalogue : p.id = id

(* the lender policies the policy loader can return, one per lender id *)
LenderCatalogue ==
  { [id |-> open_bank, version |-> 1, restrictions |-> None,
     programs |-> <<CatalogueProgram("open")>>],
    [id |-> tier_bank, version |-> 1, restrictions |-> None,
     programs |-> <<CatalogueProgram("tier_1"), CatalogueProgram("tier_2")>>],
    [id |-> tier_credit, version |-> 1, restrictions |-> None,
     programs |-> <<CatalogueProgram("tier_2b")>>],
    [id |-> texas_bank, version |-> 1,
     restrictions |-> Some([NoRestrictions EXCEPT !.geographic = Some(ExcludeCA)]),
     programs |-> <<CatalogueProgram("standard")>>],
    [id |-> standard_bank, version |-> 1, restrictions |-> None,
     programs |-> <<CatalogueProgram("standard"), CatalogueProgram("clean_history")>>],
    [id |-> seasoned_bank, version |-> 1, restrictions |-> None,
     programs |-> <<CatalogueProgram("seasoned")>>],
    [id |-> empty_bank, version |-> 1, restrictions |-> None, programs |-> <<>>] }

-----------------------------------------------------------------------------
(* app/policies/loader.py: PolicyLoader over a directory of YAML files.
   files maps the stem of each file in the directory to its content; a
   content is the text's kind (empty, no valid YAML, a mapping) and, for a
   mapping, the id, the version, the restrictions and the programs it gives.
   loader holds _cache and _load_errors. *)

LenderIds == {<<"a","b">>, <<"z">>}

EmptyFile ==
  [kind |-> "empty", id |-> <<>>, version |-> 0, restrictions |-> None,
   programs |-> <<>>]

InvalidYaml ==
  [kind |-> "invalid_yaml", id |-> <<>>, version |-> 0, restrictions |-> None,
   programs |-> <<>>]

(* a file that gives an id and a version, no restrictions and no programs *)
Mapping(id, version) ==
  [kind |-> "mapping", id |-> id, version |-> version, restrictions |-> None,
   programs |-> <<>>]

(* the file a policy is written in *)
PolicyFile(pol) ==
  [kind |-> "mapping", id |-> pol.id, version |-> pol.version,
   restrictions |-> pol.restrictions, programs |-> pol.programs]

(* the directory that holds one file per policy of pols, named by its id *)
Directory(pols) ==
  [stem \in {pol.id : pol \in pols} |->
     PolicyFile(CHOOSE pol \in pols : pol.id = stem)]

FileContents ==
  {EmptyFile, InvalidYaml}
  \cup {Mapping(<<"A","b">>, version) : version \in {0, 1, 2}}
  \cup {Mapping(<<"z">>, 1), Mapping(<<"a","-","b">>, 1)}

Digits == <<"0","1","2","3","4","5","6","7","8","9">>

(* str.isalnum() on ASCII text *)
IsAlnum(s) ==
  /\ s # <<>>
  /\ \A i \in 1..Len(s) :
       \/ \E k \in 1..26 : s[i] \in {LowerLetters[k], UpperLetters[k]}
       \/ \E k \in 1..10 : s[i] = Digits[k]

(* the field errors LenderPolicy built from raw_data reports: the id
   validator, version >= 1 and validate_unique_program_ids; the programs
   and restrictions the files give keep the bounds of their own fields *)
validation_errors(raw_data) ==
  (IF IsAlnum(SelectSeq(raw_data.id, LAMBDA c : c # "_")) THEN <<>>
   ELSE <<"id">>)
  \o (IF raw_data.version >= 1 THEN <<>> ELSE <<"version">>)
  \o (IF \A i, j \in 1..Len(raw_data.programs) :
            raw_data.programs[i].id = raw_data.programs[j].id => i = j
      THEN <<>> ELSE <<"programs">>)

(* GeographicCriteria.normalize_states on an Optional list of states *)
normalize_states(v) == IF IsNone(v) THEN None ELSE Some(MapSeq(Upper, Val(v)))

(* an Optional GeographicCriteria as validation leaves it *)
validated_geographic(geographic) ==
  IF IsNone(geographic) THEN None
  ELSE Some([Val(geographic) EXCEPT
               !.allowed_states = normalize_states(@),
               !.excluded_states = normalize_states(@)])

(* LenderPolicy built from raw_data of valid data: validate_lender_id
   lower-cases the id and normalize_states upper-cases the states of every
   geographic section; program ids are written in lower case already *)
LenderPolicy(raw_data) ==
  [id           |-> Lower(raw_data.id),
   version      |-> raw_data.version,
   restrictions |->
     IF IsNone(raw_data.restrictions) THEN None
     ELSE Some([Val(raw_data.restrictions) EXCEPT
                  !.geographic = validated_geographic(@)]),
   programs     |->
     [i \in 1..Len(raw_data.programs) |->
        [raw_data.programs[i] EXCEPT
           !.criteria.geographic = validated_geographic(@)]]]

PolicyLoadError(lender_id, message) ==
  [type |-> "PolicyLoadError", lender_id |-> lender_id, message |-> message]

(* self._load_errors[lender_id] = error; raise error *)
remember_and_raise(ldr, lender_id, message) ==
  [raised |-> Some(PolicyLoadError(lender_id, message)), value |-> None,
   loader |-> [ldr EXCEPT !.load_errors =
                 SetItem(ldr.load_errors, lender_id,
                         PolicyLoadError(lender_id, message))]]

(* load_policy up to and with policy_path.exists(): the cached policy, the
   remembered error or the error of a missing file end the call; None when
   the file is there and is opened next *)
find_policy_file(ldr, fs, lender_id, use_cache) ==
  IF use_cache /\ lender_id \in DOMAIN ldr.cache
  THEN Some([raised |-> None, value |-> Some(ldr.cache[lender_id]), loader |-> ldr])
  ELSE IF lender_id \in DOMAIN ldr.load_errors
  THEN Some([raised |-> Some(ldr.load_errors[lender_id]), value |-> None,
             loader |-> ldr])
  ELSE IF lender_id \notin DOMAIN fs
  THEN Some(remember_and_raise(ldr, lender_id,
                               Msg("Policy file not found: {}", <<lender_id>>)))
  ELSE None

(* load_policy from open(policy_path) on: a file that is no longer there
   makes open raise FileNotFoundError, which load_policy neither catches nor
   remembers *)
open_policy_file(ldr, fs, lender_id) ==
  IF lender_id \notin DOMAIN fs
  THEN [raised |-> Some([type |-> "FileNotFoundError",
                         message |-> Msg("[Errno 2] No such file or directory: '{}'",
                                         <<lender_id>>)]),
        value |-> None, loader |-> ldr]
  ELSE IF fs[lender_id].kind = "invalid_yaml"
  THEN remember_and_raise(ldr, lender_id, Msg("Invalid YAML syntax: {}", <<>>))
  ELSE IF fs[lender_id].kind = "empty"
  THEN remember_and_raise(ldr, lender_id, Msg("Policy file is empty", <<>>))
  ELSE IF validation_errors(fs[lender_id]) # <<>>
  THEN remember_and_raise(ldr, lender_id,
                          Msg("Schema validation failed: {} errors",
                              <<Len(validation_errors(fs[lender_id]))>>))
  ELSE IF LenderPolicy(fs[lender_id]).id # lender_id
  THEN remember_and_raise(ldr, lender_id,
                          Msg("Policy ID '{}' does not match filename '{}'",
                              <<LenderPolicy(fs[lender_id]).id, lender_id>>))
  ELSE [raised |-> None, value |-> Some(LenderPolicy(fs[lender_id])),
        loader |-> [ldr EXCEPT !.cache =
                      SetItem(ldr.cache, lender_id, LenderPolicy(fs[lender_id]))]]

(* PolicyLoader.load_policy(lender_id, use_cache) over the directory fs, with
   no change of the directory between exists() and open() *)
load_policy(ldr, fs, lender_id, use_cache) ==
  IF find_policy_file(ldr, fs, lender_id, use_cache) # None
  THEN Val(find_policy_file(ldr, fs, lender_id, use_cache))
  ELSE open_policy_file(ldr, fs, lender_id)

(* PolicyLoader.reload() *)
reload(ldr) == [ldr EXCEPT !.cache = <<>>, !.load_errors = <<>>]

(* PolicyLoader.invalidate(lender_id): the cached policy and the remembered
   error of the id are dropped, if there are any *)
invalidate(ldr, lender_id) ==
  [cache       |-> [x \in DOMAIN ldr.cache \ {lender_id} |-> ldr.cache[x]],
   load_errors |-> [x \in DOMAIN ldr.load_errors \ {lender_id} |->
                      ldr.load_errors[x]]]

(* the orders Path.glob may list the files of the directory in *)
GlobOrders(fs) ==
  {order \in InjectiveSeqs(DOMAIN fs, Cardinality(DOMAIN fs)) :
     Len(order) = Cardinality(DOMAIN fs)}

(* PolicyLoader.get_all_lender_ids(): the stems in the order glob lists
   them, without those that start with "_"; no directory, no ids *)
get_all_lender_ids(fs, order) == SelectSeq(order, LAMBDA stem : Head(stem) # "_")

(* load_policy(lender_id) for each id of ids in turn, on the loader the
   call before left: an id that fails to load is skipped when skip_errors,
   and ends the loop with its PolicyLoadError otherwise *)
RECURSIVE load_policies(_, _, _, _, _)
after_load_policy(got, fs, ids, loaded, skip_errors) ==
  IF got.raised = None
  THEN load_policies(got.loader, fs, ids, Append(loaded, Val(got.value)), skip_errors)
  ELSE IF skip_errors /\ Val(got.raised).type = "PolicyLoadError"
  THEN load_policies(got.loader, fs, ids, loaded, skip_errors)
  ELSE got

load_policies(ldr, fs, ids, loaded, skip_errors) ==
  IF ids = <<>> THEN [raised |-> None, value |-> Some(loaded), loader |-> ldr]
  ELSE after_load_policy(load_policy(ldr, fs, Head(ids), TRUE), fs, Tail(ids),
                         loaded, skip_errors)

(* PolicyLoader.load_all_policies(skip_errors) *)
load_all_policies(ldr, fs, order, skip_errors) ==
  load_policies(ldr, fs, get_all_lender_ids(fs, order), <<>>, skip_errors)

(* PolicyLoader.get_active_policies() *)
get_active_policies(ldr, fs, order) == load_all_policies(ldr, fs, order, TRUE)

(* PolicyLoader(policies_dir): nothing cached, no error remembered *)
PolicyLoader == [cache |-> <<>>, load_errors |-> <<>>]

-----------------------------------------------------------------------------
(* The calls *)

(* the threads that call get_rule at the same time *)
MaxThreads == 2

(* a thread outside get_rule *)
IdleThread ==
  [pc |-> "idle", name |-> None, built |-> None, raised |-> None, value |-> None]

(* no policy read from its file yet, the application stored as
   create_application leaves it, no workflow triggered *)
NothingLoaded ==
  /\ loader = PolicyLoader
  /\ application_status = "pending"
  /\ workflow_run = None
  /\ step_call = None
  /\ in_progress = None

(* what no call has produced yet *)
NothingCalled ==
  /\ NothingLoaded
  /\ policy = None
  /\ lender_result = None
  /\ policies = <<>>
  /\ matches = <<>>
  /\ matching_result = None
  /\ raised = None
  /\ returned = None
  /\ earlier = {}
  /\ again = FALSE
  /\ handed_out = {}
  /\ tasks = <<>>
  /\ completed = <<>>
  /\ threads = [t \in 1..MaxThreads |-> IdleThread]
  /\ rule_call = None

(* the directory with the file of every lender of the catalogue *)
CatalogueDirectory == Directory(LenderCatalogue)

(* a directory without policy files *)
EmptyDirectory == <<>>

(* the file of texas_bank as a hand-written one gives it: the id capitalised
   and the state in lower case *)
TexasFile ==
  [PolicyFile(CHOOSE pol \in LenderCatalogue : pol.id = texas_bank) EXCEPT
     !.id = <<"T","e","x","a","s","_","B","a","n","k">>,
     !.restrictions =
        Some([NoRestrictions EXCEPT
                !.geographic =
                   Some([NoGeographic EXCEPT
                           !.excluded_states = Some(<< <<"c","a">> >>)])])]

(* a directory of two policies and the template file they were copied from *)
TemplateDirectory ==
  [stem \in {open_bank, texas_bank, template_stem} |->
     IF stem = texas_bank THEN TexasFile
     ELSE IF stem = template_stem THEN Mapping(template_stem, 1)
     ELSE CatalogueDirectory[stem]]

(* a directory of two policies and a file left empty *)
BrokenDirectory ==
  [stem \in {tier_credit, seasoned_bank, broken_bank} |->
     IF stem = broken_bank THEN EmptyFile ELSE CatalogueDirectory[stem]]

Directories ==
  {CatalogueDirectory, EmptyDirectory, TemplateDirectory, BrokenDirectory}

(* the lender_ids match_application is given: None, or a list of ids of
   the catalogue or with ghost_bank, for which no directory has a file *)
LenderIdLists ==
  {None}
  \cup {Some(lender_ids) :
          lender_ids \in InjectiveSeqs({pol.id : pol \in LenderCatalogue}, MaxLenders)
                           \cup {<<ghost_bank>>, <<open_bank, ghost_bank>>}}

(* the ids a single lender is asked for *)
SingleLenderIds == {pol.id : pol \in LenderCatalogue} \cup {ghost_bank}

(* a directory small enough to evaluate every lender of it in one round *)
SmallDirectory == Cardinality(DOMAIN files) <= MaxLenders

Init ==
  /\ files \in Directories
  /\ context \in (IF files = CatalogueDirectory THEN Contexts
                  ELSE {c \in Contexts : /\ c.fico_score = Some(720)
                                         /\ c.loan_amount = 15000})
  /\ registry = ImportRegistry
  /\ NothingCalled

Idle ==
  /\ lender_result = None
  /\ matching_result = None
  /\ rule_call = None
  /\ raised = None
  /\ returned = None

(* the state a call of MatchingEngine.evaluate_lender(context, pol) leaves:
   its result or its exception, and the registry with the instances it built;
   earlier keeps the outcome of the first evaluation of each policy since
   the registry was last changed by register or clear, and again tells
   whether this call is a later evaluation of its policy *)
evaluate_lender_returns(pol, got) ==
  /\ policy' = Some(pol)
  /\ lender_result' = got.value
  /\ raised' = got.raised
  /\ registry' = got.registry
  /\ again' = \E e \in earlier : e.policy = pol
  /\ earlier' = IF \E e \in earlier : e.policy = pol THEN earlier
                ELSE earlier \cup {[policy |-> pol, raised |-> got.raised,
                                    value |-> got.value]}
  /\ policies' = <<>>
  /\ matches' = <<>>
  /\ matching_result' = None
  /\ returned' = None
  /\ UNCHANGED <<context, handed_out, rule_call, concurrent_vars,
                 files, workflow_vars>>

(* MatchingEngine.evaluate_lender(context, pol) *)
EvaluateLender(pol) ==
  /\ Idle
  /\ evaluate_lender_returns(pol, engine_evaluate_lender(registry, context, pol))
  /\ UNCHANGED loader

(* the policies match_application and match_application_async evaluate:
   those of lender_ids, each loaded by load_policy, when lender_ids is
   neither None nor empty, and the active policies otherwise *)
load_lender_policies(ldr, fs, lender_ids, order) ==
  IF TruthyList(lender_ids)
  THEN load_policies(ldr, fs, Val(lender_ids), <<>>, FALSE)
  ELSE get_active_policies(ldr, fs, order)

(* the loop of match_application over the loaded policies; a PolicyLoadError
   leaves the call before any lender is evaluated *)
evaluate_loaded(reg, loaded, got) ==
  IF loaded.raised # None
  THEN [raised |-> loaded.raised, value |-> None, registry |-> reg,
        loader |-> loaded.loader, policies |-> <<>>]
  ELSE [raised |-> got.raised, value |-> got.value, registry |-> got.registry,
        loader |-> loaded.loader, policies |-> Val(loaded.value)]

evaluate_all(reg, ctx, loaded) ==
  evaluate_loaded(reg, loaded,
    IF loaded.raised # None THEN Return(<<>>, reg)
    ELSE evaluate_policies(reg, ctx, Val(loaded.value), <<>>))

(* LenderMatchingService.match_application(context, lender_ids) on the
   registry reg, the loader ldr and the directory fs: the policies loaded,
   the matches of the loop in policy order, the registry and the loader the
   call leaves *)
match_application(reg, ldr, fs, ctx, lender_ids, order) ==
  evaluate_all(reg, ctx, load_lender_policies(ldr, fs, lender_ids, order))

(* the state a call of a service method leaves when it raises *)
service_raises(error, reg, ldr) ==
  /\ raised' = error
  /\ registry' = reg
  /\ loader' = ldr
  /\ policy' = None
  /\ lender_result' = None
  /\ policies' = <<>>
  /\ matches' = <<>>
  /\ matching_result' = None
  /\ returned' = None
  /\ again' = FALSE
  /\ UNCHANGED <<context, earlier, handed_out, rule_call, concurrent_vars,
                 files, workflow_vars>>

(* the state a call of match_application leaves: the MatchingResult built
   from the evaluated list, or the exception that left the call, and the
   loader with the policies it read *)
match_application_returns(got) ==
  /\ policies' = got.policies
  /\ raised' = got.raised
  /\ registry' = got.registry
  /\ loader' = got.loader
  /\ IF got.raised # None
     THEN matching_result' = None /\ matches' = <<>>
     ELSE /\ matching_result' = Some(build_result(Val(got.value)))
          /\ matches' = ranked_in_place(Val(got.value))
  /\ policy' = None
  /\ lender_result' = None
  /\ returned' = None
  /\ again' = FALSE
  /\ UNCHANGED <<context, earlier, handed_out, rule_call, concurrent_vars,
                 files, workflow_vars>>

(* LenderMatchingService.match_application(context, lender_ids): the
   policies are loaded, evaluated in list order and ranked; the active
   policies come in the order glob lists their files in *)
MatchApplication(lender_ids) ==
  /\ Idle
  /\ IF TruthyList(lender_ids)
     THEN match_application_returns(
            match_application(registry, loader, files, context, lender_ids, <<>>))
     ELSE /\ SmallDirectory
          /\ \E order \in GlobOrders(files) :
               match_application_returns(
                 match_application(registry, loader, files, context, lender_ids,
                                   order))

(* LenderMatchingService.match_single_lender(context, lender_id) *)
match_single_lender(reg, ldr, fs, ctx, lender_id) ==
  IF load_policy(ldr, fs, lender_id, TRUE).raised # None
  THEN [raised |-> load_policy(ldr, fs, lender_id, TRUE).raised, value |-> None,
        registry |-> reg, loader |-> load_policy(ldr, fs, lender_id, TRUE).loader,
        policies |-> <<>>]
  ELSE evaluate_loaded(reg,
         [raised |-> None,
          value  |-> Some(<<Val(load_policy(ldr, fs, lender_id, TRUE).value)>>),
          loader |-> load_policy(ldr, fs, lender_id, TRUE).loader],
         engine_evaluate_lender(reg, ctx,
                                Val(load_policy(ldr, fs, lender_id, TRUE).value)))

single_lender_returns(got) ==
  IF got.policies = <<>>
  THEN service_raises(got.raised, got.registry, got.loader)
  ELSE /\ evaluate_lender_returns(got.policies[1], got)
       /\ loader' = got.loader

MatchSingleLender(lender_id) ==
  /\ Idle
  /\ single_lender_returns(
       match_single_lender(registry, loader, files, context, lender_id))

(* the state a service method leaves that hands back a plain value *)
service_returns(got, value) ==
  IF got.raised # None
  THEN service_raises(got.raised, got.registry, got.loader)
  ELSE /\ returned' = Some(value)
       /\ raised' = None
       /\ registry' = got.registry
       /\ loader' = got.loader
       /\ policy' = None
       /\ lender_result' = None
       /\ policies' = <<>>
       /\ matches' = <<>>
       /\ matching_result' = None
       /\ again' = FALSE
       /\ UNCHANGED <<context, earlier, handed_out, rule_call, concurrent_vars,
                      files, workflow_vars>>

(* the lender ids get_eligible_lenders picks from the MatchingResult *)
eligible_lender_ids(result) ==
  MapSeq(LAMBDA m : m.lender_id,
         SelectSeq(result.matches, LAMBDA m : m.is_eligible))

(* LenderMatchingService.get_eligible_lenders(context) *)
eligible_lenders_returned(order) ==
  service_returns(
       match_application(registry, loader, files, context, None, order),
       IF match_application(registry, loader, files, context, None, order).raised
            # None
       THEN <<>>
       ELSE eligible_lender_ids(
              build_result(
                Val(match_application(registry, loader, files, context, None,
                                      order).value))))

GetEligibleLenders ==
  /\ Idle
  /\ SmallDirectory
  /\ \E order \in GlobOrders(files) : eligible_lenders_returned(order)

(* LenderMatchResult.primary_rejection_reason *)
primary_rejection_reason(result) ==
  IF result.global_rejection_reasons # <<>>
  THEN Some(result.global_rejection_reasons[1])
  ELSE IF ~IsNone(result.best_program)
          /\ Val(result.best_program).rejection_reasons # <<>>
  THEN Some(Val(result.best_program).rejection_reasons[1])
  ELSE None

(* the failed_criteria list explain_rejection gives for a program: rule and
   message of every failed result *)
failed_criteria(criteria_results) ==
  MapSeq(LAMBDA r : [rule |-> r.rule_name, message |-> r.message],
         SelectSeq(criteria_results, LAMBDA r : ~r.passed))

(* the program_rejections dict of explain_rejection: one entry per name of
   an ineligible program, that of the last program of the name *)
program_rejections(program_results) ==
  LET rejected == SelectSeq(program_results, LAMBDA p : ~p.is_eligible)
      last(name) ==
        rejected[CHOOSE i \in 1..Len(rejected) :
                   /\ rejected[i].program_name = name
                   /\ \A j \in (i + 1)..Len(rejected) :
                        rejected[j].program_name # name]
  IN  [name \in {rejected[i].program_name : i \in 1..Len(rejected)} |->
         [rejection_reasons |-> last(name).rejection_reasons,
          failed_criteria   |-> failed_criteria(last(name).criteria_results)]]

(* the dict explain_rejection builds from the lender's result *)
explain_rejection(result) ==
  IF result.is_eligible
  THEN [is_rejected  |-> FALSE,
        message      |-> Msg("Application qualifies for this lender", <<>>),
        best_program |-> IF IsNone(result.best_program) THEN None
                         ELSE Some(Val(result.best_program).program_name)]
  ELSE [is_rejected              |-> TRUE,
        global_rejection_reasons |-> result.global_rejection_reasons,
        program_rejections       |-> program_rejections(result.program_results),
        primary_reason           |-> primary_rejection_reason(result)]

(* LenderMatchingService.explain_rejection(context, lender_id) *)
ExplainRejection(lender_id) ==
  /\ Idle
  /\ service_returns(
       match_single_lender(registry, loader, files, context, lender_id),
       IF match_single_lender(registry, loader, files, context, lender_id).raised
            # None
       THEN <<>>
       ELSE explain_rejection(
              Val(match_single_lender(registry, loader, files, context,
                                      lender_id).value)))

Next ==
  \/ \E pol \in Policies : EvaluateLender(pol)
  \/ \E lender_ids \in LenderIdLists : MatchApplication(lender_ids)
  \/ \E lender_id \in SingleLenderIds : MatchSingleLender(lender_id)
  \/ GetEligibleLenders
  \/ \E lender_id \in SingleLenderIds : ExplainRejection(lender_id)

Spec == Init /\ [][Next]_vars

-----------------------------------------------------------------------------
(* The registry in use: lookups, registrations and clear() between
   evaluations, as the registry tests and a process that re-imports its rules
   make them *)

(* the rule objects one behaviour may build *)
MaxConstructed == 4

WithinBound(got) == got.registry.constructed <= MaxConstructed

RegistryContexts ==
  {c \in Contexts : /\ c.fico_score = Some(720)
                    /\ c.loan_amount = 15000
                    /\ c.state \in {CleanProfile.state, FlaggedProfile.state}}

(* a lender whose only program has a geographic section and nothing else *)
RegionalBank ==
  [id |-> regional_bank, version |-> 1, restrictions |-> None,
   programs |-> <<Program("regional", None, None,
                    [NoCriteria EXCEPT !.geographic = Some(AllowTX)])>>]

RegistryPolicies ==
  {pol \in LenderCatalogue :
     pol.id \in {open_bank, tier_bank, texas_bank}}
  \cup {RegionalBank}

(* the rounds over open_bank and tier_bank, in either order *)
RegistryIdLists ==
  {lender_ids \in InjectiveSeqs({open_bank, tier_bank}, MaxLenders) :
     Len(lender_ids) >= 2}

(* the keys registered again after a clear(), each with its own class or,
   by mistake, with a class that is no Rule *)
RegisterKeys == {"credit_score", "loan_amount"}

(* the keys looked up directly; "unknown" is registered nowhere *)
LookupKeys == {"credit_score", "unknown"}

RegistryInit ==
  /\ context \in RegistryContexts
  /\ registry = ImportRegistry
  /\ files = Directory(RegistryPolicies)
  /\ NothingCalled

(* the state a call on the registry itself leaves: what it returned or
   raised, and no engine or service result *)
registry_call_returns(got) ==
  /\ registry' = got.registry
  /\ raised' = got.raised
  /\ returned' = got.value
  /\ policy' = None
  /\ lender_result' = None
  /\ policies' = <<>>
  /\ matches' = <<>>
  /\ matching_result' = None
  /\ again' = FALSE
  /\ UNCHANGED <<context, rule_call, concurrent_vars,
                 loader_vars, workflow_vars>>

(* RuleRegistry.register(name)(rule_class) *)
Register(name, rule_class) ==
  /\ registry_call_returns(register(registry, name, rule_class))
  /\ earlier' = IF IsRuleClass(rule_class) THEN {} ELSE earlier
  /\ UNCHANGED handed_out

(* RuleRegistry.clear(): it returns None *)
Clear ==
  /\ registry_call_returns(
       [raised |-> None, value |-> None, registry |-> clear(registry)])
  /\ earlier' = {}
  /\ handed_out' = {}

(* RuleRegistry.get_rule(name); handed_out keeps the instances returned for
   each key since the last clear() *)
GetRule(name) ==
  /\ WithinBound(get_rule(registry, name))
  /\ registry_call_returns(get_rule(registry, name))
  /\ handed_out' =
       IF get_rule(registry, name).raised # None THEN handed_out
       ELSE handed_out \cup
              {[name |-> name, instance |-> Val(get_rule(registry, name).value)]}
  /\ UNCHANGED earlier

(* RuleRegistry.get_rule_class(name) *)
GetRuleClass(name) ==
  /\ registry_call_returns(get_rule_class(registry, name))
  /\ UNCHANGED <<earlier, handed_out>>

(* evaluate_lender called again and again in one process *)
EvaluateLenderAgain(pol) ==
  /\ WithinBound(engine_evaluate_lender(registry, context, pol))
  /\ evaluate_lender_returns(pol, engine_evaluate_lender(registry, context, pol))
  /\ UNCHANGED loader

(* match_application called again and again in one process, on the loader
   the calls before left *)
MatchApplicationAgain(lender_ids) ==
  /\ WithinBound(match_application(registry, loader, files, context,
                                   Some(lender_ids), <<>>))
  /\ match_application_returns(
       match_application(registry, loader, files, context, Some(lender_ids), <<>>))

RegistryNext ==
  \/ \E name \in RegisterKeys :
       \E rule_class \in {RepositoryRules[name], "object"} : Register(name, rule_class)
  \/ Clear
  \/ \E name \in LookupKeys : GetRule(name)
  \/ \E name \in LookupKeys : GetRuleClass(name)
  \/ \E pol \in RegistryPolicies : EvaluateLenderAgain(pol)
  \/ \E lender_ids \in RegistryIdLists : MatchApplicationAgain(lender_ids)

RegistrySpec == RegistryInit /\ [][RegistryNext]_vars

(* The registry with a key registered a second time.  A plug-in or a test
   registers its own class under a key the repository's rules already use:
   register(name) stores whatever Rule subclass it is given. *)
ReRegisteredClasses == {"CreditScoreRule", "LoanAmountRule", "object"}

ReRegisterInit ==
  /\ context = DefaultContext
  /\ registry = ImportRegistry
  /\ files = EmptyDirectory
  /\ NothingCalled

ReRegisterNext ==
  \/ \E name \in RegisterKeys :
       \E rule_class \in ReRegisteredClasses : Register(name, rule_class)
  \/ Clear
  \/ \E name \in RegisterKeys : GetRule(name)
  \/ \E name \in RegisterKeys : GetRuleClass(name)

ReRegisterSpec == ReRegisterInit /\ [][ReRegisterNext]_vars

-----------------------------------------------------------------------------
(* LenderMatchingService.match_application_async: one coroutine per policy,
   handed to asyncio.gather.  The event loop runs the coroutines one at a
   time; gather promises nothing about the order they run and finish in, so
   the next one to run is any that has not run yet *)

AsyncLenders ==
  {pol \in LenderCatalogue : pol.id \in {open_bank, tier_bank, tier_credit}}

(* the lender_ids match_application_async is given: None, or a list *)
AsyncIdLists ==
  {None} \cup {Some(lender_ids) :
                 lender_ids \in InjectiveSeqs({pol.id : pol \in AsyncLenders},
                                              MaxLenders)}

AsyncInit ==
  /\ context \in RegistryContexts
  /\ registry \in {ImportRegistry, clear(ImportRegistry)}
  /\ files \in {Directory(AsyncLenders), EmptyDirectory}
  /\ NothingCalled

(* the call is under way until gather has handed back a list or an
   exception *)
Awaiting == tasks # <<>> /\ matching_result = None /\ raised = None

(* the list as asyncio.as_completed would give it: in the order the tasks
   finished *)
gather_as_completed(ts, order) ==
  [k \in 1..Len(order) |-> Val(ts[order[k]].value)]

(* the list asyncio.gather returns: one result per awaitable, in the order
   the awaitables were passed, whatever order they finished in *)
gather(ts, order) == [i \in 1..Len(ts) |-> Val(ts[i].value)]

(* match_application_async up to its await: the policies are loaded, which
   may raise PolicyLoadError, and the coroutines created in policy-list
   order; without a policy there is nothing to wait for, and the call
   returns the MatchingResult of no match at once *)
async_called(loaded) ==
  /\ loader' = loaded.loader
  /\ raised' = loaded.raised
  /\ policies' = IF loaded.raised # None THEN <<>> ELSE Val(loaded.value)
  /\ tasks' = IF loaded.raised # None THEN <<>>
              ELSE [i \in 1..Len(Val(loaded.value)) |->
                      [done |-> FALSE, raised |-> None, value |-> None]]
  /\ matching_result' = IF loaded.raised = None /\ Val(loaded.value) = <<>>
                        THEN Some(build_result(<<>>)) ELSE None
  /\ UNCHANGED <<context, policy, lender_result, matches,
                 registry, returned, earlier, again, handed_out,
                 completed, threads, rule_call, files, workflow_vars>>

MatchApplicationAsync(lender_ids) ==
  /\ Idle
  /\ tasks = <<>>
  /\ IF TruthyList(lender_ids)
     THEN async_called(load_lender_policies(loader, files, lender_ids, <<>>))
     ELSE \E order \in GlobOrders(files) :
            async_called(load_lender_policies(loader, files, lender_ids, order))

(* the coroutine evaluate_lender(policy) of the i-th policy runs: it has no
   await of its own, so it runs to its end in one piece *)
RunTask(i) ==
  /\ Awaiting
  /\ ~tasks[i].done
  /\ tasks' = [tasks EXCEPT ![i] =
       [done   |-> TRUE,
        raised |-> engine_evaluate_lender(registry, context, policies[i]).raised,
        value  |-> engine_evaluate_lender(registry, context, policies[i]).value]]
  /\ completed' = Append(completed, i)
  /\ registry' = engine_evaluate_lender(registry, context, policies[i]).registry
  /\ UNCHANGED <<context, policy, lender_result, policies, matches,
                 matching_result, raised, returned, earlier, again, handed_out,
                 threads, rule_call,
                 loader_vars, workflow_vars>>

(* the await of asyncio.gather hands back: the first exception a task
   raised, as soon as it is raised, or the list of all results once every
   task is done, from which _build_result makes the MatchingResult *)
Gather ==
  /\ Awaiting
  /\ IF \E k \in 1..Len(completed) : tasks[completed[k]].raised # None
     THEN /\ raised' =
               tasks[completed[CHOOSE k \in 1..Len(completed) :
                       /\ tasks[completed[k]].raised # None
                       /\ \A j \in 1..(k - 1) :
                            tasks[completed[j]].raised = None]].raised
          /\ UNCHANGED <<matching_result, matches>>
     ELSE /\ \A i \in 1..Len(tasks) : tasks[i].done
          /\ matching_result' = Some(build_result(gather(tasks, completed)))
          /\ matches' = ranked_in_place(gather(tasks, completed))
          /\ UNCHANGED raised
  /\ UNCHANGED <<context, policy, lender_result, policies, registry, returned,
                 earlier, again, handed_out, tasks, completed, threads, rule_call,
                 loader_vars, workflow_vars>>

AsyncNext ==
  \/ \E lender_ids \in AsyncIdLists : MatchApplicationAsync(lender_ids)
  \/ \E i \in 1..Len(tasks) : RunTask(i)
  \/ Gather

AsyncSpec == AsyncInit /\ [][AsyncNext]_vars

-----------------------------------------------------------------------------
(* RuleRegistry.get_rule called from several threads at once.  The method
   takes no lock, so another thread may run between any two of its
   statements: each thread goes through the membership test on _rules
   (line 58), the membership test on _instances (line 61), the constructor
   call of line 62, the store of line 62 and the read it returns (line 64)
   as separate steps *)

ThreadKeys == {"credit_score", "unknown"}

ThreadInit ==
  /\ context \in RegistryContexts
  /\ registry = ImportRegistry
  /\ files = EmptyDirectory
  /\ NothingCalled

thread_vars_unchanged ==
  UNCHANGED <<context, policy, lender_result, policies, matches,
              matching_result, raised, returned, earlier, again, tasks,
              completed, rule_call,
                 loader_vars, workflow_vars>>

(* thread t enters get_rule(name) *)
ThreadCall(t, name) ==
  /\ threads[t].pc \in {"idle", "done"}
  /\ threads' = [threads EXCEPT ![t] = [IdleThread EXCEPT !.pc = "check_rules",
                                                          !.name = Some(name)]]
  /\ UNCHANGED <<registry, handed_out>>
  /\ thread_vars_unchanged

(* if name not in cls._rules: raise KeyError *)
ThreadCheckRules(t) ==
  /\ threads[t].pc = "check_rules"
  /\ threads' = [threads EXCEPT ![t] =
       IF Val(threads[t].name) \notin DOMAIN registry.rules
       THEN [threads[t] EXCEPT
               !.pc = "done",
               !.raised = KeyError(Val(threads[t].name), registry).raised]
       ELSE [threads[t] EXCEPT !.pc = "check_instances"]]
  /\ UNCHANGED <<registry, handed_out>>
  /\ thread_vars_unchanged

(* if name not in cls._instances *)
ThreadCheckInstances(t) ==
  /\ threads[t].pc = "check_instances"
  /\ threads' = [threads EXCEPT ![t].pc =
       IF Val(threads[t].name) \notin DOMAIN registry.instances
       THEN "construct" ELSE "return"]
  /\ UNCHANGED <<registry, handed_out>>
  /\ thread_vars_unchanged

(* the right-hand side of line 62: cls._rules[name]() builds an object the
   thread holds and has not stored yet *)
ThreadConstruct(t) ==
  /\ threads[t].pc = "construct"
  /\ registry' = [registry EXCEPT !.constructed = registry.constructed + 1]
  /\ threads' = [threads EXCEPT
       ![t].pc = "store",
       ![t].built = Some([class |-> registry.rules[Val(threads[t].name)],
                          serial |-> registry.constructed + 1])]
  /\ UNCHANGED handed_out
  /\ thread_vars_unchanged

(* the assignment of line 62: cls._instances[name] = the object built *)
ThreadStore(t) ==
  /\ threads[t].pc = "store"
  /\ registry' =
       [registry EXCEPT
          !.instances = SetItem(registry.instances, Val(threads[t].name),
                                Val(threads[t].built))]
  /\ threads' = [threads EXCEPT ![t].pc = "return"]
  /\ UNCHANGED handed_out
  /\ thread_vars_unchanged

(* return cls._instances[name] *)
ThreadReturn(t) ==
  /\ threads[t].pc = "return"
  /\ threads' = [threads EXCEPT ![t] =
       [threads[t] EXCEPT
          !.pc = "done",
          !.value = Some(registry.instances[Val(threads[t].name)])]]
  /\ handed_out' = handed_out \cup
       {[name |-> Val(threads[t].name),
         instance |-> registry.instances[Val(threads[t].name)]]}
  /\ UNCHANGED registry
  /\ thread_vars_unchanged

ThreadNext ==
  \E t \in 1..MaxThreads :
    \/ \E name \in ThreadKeys : ThreadCall(t, name)
    \/ ThreadCheckRules(t)
    \/ ThreadCheckInstances(t)
    \/ ThreadConstruct(t)
    \/ ThreadStore(t)
    \/ ThreadReturn(t)

ThreadSpec == ThreadInit /\ [][ThreadNext]_vars

-----------------------------------------------------------------------------
(* The rules called on their own, as the unit tests of app/rules call them:
   a RuleResult constructed directly, rule.evaluate(context, criteria) on a
   registered rule, and the engine's restriction checks.  rule_call keeps
   the call, its argument and what it returned *)

(* the scores a caller hands to RuleResult(...) *)
RawScores == {RatInt(-10), RatInt(0), Rat(1, 2), RatInt(100), RatInt(150)}

CreditScoreCriteria ==
  {[type |-> t, min |-> m] : t \in {S_fico, S_transunion}, m \in {615, 700, 720}}

LoanAmountCriteria ==
  {[min_amount |-> lo, max_amount |-> hi] :
     lo \in {None, Some(10000)}, hi \in {None, Some(20000)}}

(* state lists in mixed case: one list only, CA on both lists, CA excluded
   next to an allowed list without it *)
GeographicCriteria ==
  {AllowTX, ExcludeCA,
   [excluded_states |-> Some(<< <<"c","a">> >>),
    allowed_states  |-> Some(<< <<"C","A">>, <<"T","x">> >>)],
   [excluded_states |-> Some(<< <<"N","Y">>, <<"C","a">> >>),
    allowed_states  |-> Some(<< <<"t","x">> >>)],
   [excluded_states |-> Some(<< <<"N","Y">> >>),
    allowed_states  |-> Some(<< <<"t","x">> >>)]}

(* credit history criteria as the rule reads them, years in tenths: one
   allowing a bankruptcy discharged five years ago and nothing else, one
   allowing no bankruptcy at all, one with amount ceilings only *)
CreditHistoryCriteria ==
  {[max_bankruptcies |-> Some(1), bankruptcy_min_discharge_years |-> Some(50),
    max_open_judgements |-> Some(0), max_judgement_amount |-> None,
    max_tax_liens |-> Some(0), max_tax_lien_amount |-> None,
    allows_foreclosure |-> Some(FALSE), allows_repossession |-> Some(FALSE)],
   [max_bankruptcies |-> Some(0), bankruptcy_min_discharge_years |-> None,
    max_open_judgements |-> None, max_judgement_amount |-> None,
    max_tax_liens |-> Some(0), max_tax_lien_amount |-> None,
    allows_foreclosure |-> None, allows_repossession |-> Some(FALSE)],
   [max_bankruptcies |-> None, bankruptcy_min_discharge_years |-> None,
    max_open_judgements |-> Some(2), max_judgement_amount |-> Some(5000),
    max_tax_liens |-> Some(2), max_tax_lien_amount |-> Some(5000),
    allows_foreclosure |-> Some(TRUE), allows_repossession |-> None]}

(* applicants with every combination of the five credit history events: a
   bankruptcy discharged three years ago, an open judgement of 8000, a tax
   lien of 3000, a foreclosure, a repossession *)
HistoryContexts ==
  {[CleanProfile EXCEPT
      !.loan_amount = 15000,
      !.has_bankruptcy = b,
      !.bankruptcy_discharge_years = IF b THEN Some(30) ELSE None,
      !.has_open_judgements = j,
      !.judgement_amount = IF j THEN Some(8000) ELSE None,
      !.has_tax_liens = t,
      !.tax_lien_amount = IF t THEN Some(3000) ELSE None,
      !.has_foreclosure = f,
      !.has_repossession = r] :
     b \in BOOLEAN, j \in BOOLEAN, t \in BOOLEAN, f \in BOOLEAN, r \in BOOLEAN}

(* business criteria as the rule reads them, years in tenths: two years in
   business and a homeowner; two and a half years in business; a homeowner
   with a fleet of two and a CDL when trucking; homeowner not required *)
BusinessCriteria ==
  {[NoBusiness EXCEPT !.min_time_in_business_years = Some(20),
                      !.requires_homeowner = Some(TRUE)],
   [NoBusiness EXCEPT !.min_time_in_business_years = Some(25)],
   [NoBusiness EXCEPT !.requires_homeowner = Some(TRUE),
                      !.requires_cdl = Some("conditional"),
                      !.min_fleet_size = Some(2)],
   [NoBusiness EXCEPT !.requires_homeowner = Some(FALSE)]}

RuleCriteria(name) ==
  CASE name = "credit_score" -> CreditScoreCriteria
    [] name = "loan_amount"  -> LoanAmountCriteria
    [] name = "geographic"   -> GeographicCriteria
    [] name = "credit_history" -> CreditHistoryCriteria
    [] name = "business"     ->
         {[min_time_in_business_years    |-> b.min_time_in_business_years,
           requires_homeowner            |-> b.requires_homeowner,
           requires_cdl                  |-> b.requires_cdl,
           min_cdl_years                 |-> b.min_cdl_years,
           min_industry_experience_years |-> b.min_industry_experience_years,
           min_fleet_size                |-> b.min_fleet_size,
           min_annual_revenue            |-> None] : b \in BusinessCriteria}
    [] name = "equipment"    ->
         {[max_age_years |-> Some(10), max_mileage |-> Some(400000),
           max_hours |-> None],
          [max_age_years |-> None, max_mileage |-> None,
           max_hours |-> Some(10000)]}

RestrictionCriteria(kind) ==
  CASE kind = "geographic"    -> GeographicCriteria
    [] kind = "industry"      -> {ExcludeCabs}
    [] kind = "transaction"   -> {DealerPurchaseOnly}

(* MatchingEngine._evaluate_<kind>_restriction(context, criteria): a failing
   RuleResult or None *)
evaluate_restriction(kind, ctx, criteria) ==
  CASE kind = "geographic"    -> evaluate_geographic_restriction(ctx, criteria)
    [] kind = "industry"      -> evaluate_industry_restriction(ctx, criteria)
    [] kind = "transaction"   -> evaluate_transaction_restriction(ctx, criteria)

(* the lenders evaluated next to the rule calls: those of the catalogue, one
   whose program has only a geographic section, one whose program has
   equipment, geographic, industry and transaction sections, and one whose
   program has a business section in which no field the engine forwards is
   set, one that allows a single industry lender-wide, one whose program
   allows a single industry, and one whose program caps the equipment hours *)
RuleLenders ==
  LenderCatalogue
  \cup {RegionalBank,
        [id |-> local_bank, version |-> 1, restrictions |-> None,
         programs |-> <<CatalogueProgram("local")>>],
        [id |-> citizen_bank, version |-> 1, restrictions |-> None,
         programs |-> <<Program("citizens", None, None,
                          [NoCriteria EXCEPT
                             !.business = Some([NoBusiness EXCEPT
                                                  !.requires_us_citizen = Some(TRUE)])])>>],
        [id |-> builders_bank, version |-> 1,
         restrictions |-> Some([NoRestrictions EXCEPT
                                  !.industry = Some([NoIndustry EXCEPT
                                     !.allowed_industries = Some(<< <<"B","u","i","l","d">> >>)])]),
         programs |-> <<CatalogueProgram("open")>>],
        [id |-> growers_bank, version |-> 1, restrictions |-> None,
         programs |-> <<Program("growers", None, None,
                          [NoCriteria EXCEPT
                             !.industry = Some([NoIndustry EXCEPT
                                !.allowed_industries = Some(<< <<"f","a","r","m">> >>)])])>>],
        [id |-> hours_bank, version |-> 1, restrictions |-> None,
         programs |-> <<Program("low_hours", None, None,
                          [NoCriteria EXCEPT
                             !.equipment = Some([NoEquipment EXCEPT
                                                   !.max_hours = Some(10000)])])>>]}

RuleInit ==
  /\ context \in Contexts \cup HistoryContexts
  /\ registry = ImportRegistry
  /\ files = EmptyDirectory
  /\ NothingCalled

rule_call_returns(call) ==
  /\ rule_call' = Some(call)
  /\ UNCHANGED <<context, policy, lender_result, policies, matches,
                 matching_result, registry, raised, returned, earlier, again,
                 handed_out, concurrent_vars,
                 loader_vars, workflow_vars>>

(* RuleResult(passed=passed, ..., score=score) *)
NewRuleResult(passed, score) ==
  /\ Idle
  /\ rule_call_returns(
       [rule |-> "RuleResult", by |-> "caller", criteria |-> [passed |-> passed, score |-> score],
        result |-> Some(RuleResult(passed, Msg("Test", <<>>), Msg("Test", <<>>),
                                   score, None))])

(* get_rule(name).evaluate(context, criteria) *)
EvaluateRule(name, criteria) ==
  /\ Idle
  /\ rule_call_returns(
       [rule |-> name, by |-> "rule", criteria |-> criteria,
        result |-> Some(get_rule_evaluate(name, context, criteria))])

(* engine._evaluate_<kind>_restriction(context, criteria) *)
EvaluateRestriction(kind, criteria) ==
  /\ Idle
  /\ rule_call_returns(
       [rule |-> kind, by |-> "engine", criteria |-> criteria,
        result |-> evaluate_restriction(kind, context, criteria)])

RuleNext ==
  \/ \E passed \in BOOLEAN, score \in RawScores : NewRuleResult(passed, score)
  \/ \E name \in {"credit_score", "loan_amount", "geographic", "credit_history",
                  "business", "equipment"} :
       \E criteria \in RuleCriteria(name) : EvaluateRule(name, criteria)
  \/ \E kind \in {"geographic", "industry", "transaction"} :
       \E criteria \in RestrictionCriteria(kind) : EvaluateRestriction(kind, criteria)
  \/ \E pol \in RuleLenders : EvaluateLender(pol)

RuleSpec == RuleInit /\ [][RuleNext]_vars

-----------------------------------------------------------------------------
(* app/workflows/evaluation.py and app/workflows/triggers.py.  A match is
   the dict LenderMatchResult.to_dict() gives, of which lender_id,
   is_eligible, fit_score and rank are kept *)

(* list.sort(key=fit_score, reverse=True): descending, equal scores in their
   original order *)
RECURSIVE sort_by_fit_score(_)
sort_by_fit_score(ms) ==
  IF ms = <<>> THEN <<>>
  ELSE LET last == ms[Len(ms)]
           rest == sort_by_fit_score(SubSeq(ms, 1, Len(ms) - 1))
       IN  SelectSeq(rest, LAMBDA m : ~RatLT(m.fit_score, last.fit_score))
           \o <<last>>
           \o SelectSeq(rest, LAMBDA m : RatLT(m.fit_score, last.fit_score))

(* a ranking step that leaves the ineligible matches the rank they came
   with *)
rank_results_keeping_ranks(eval_result) ==
  IF eval_result.skipped
  THEN [status |-> "skipped", ranked_matches |-> None]
  ELSE LET ms         == eval_result.matches
           eligible   == sort_by_fit_score(SelectSeq(ms, LAMBDA m : m.is_eligible))
           ineligible == SelectSeq(ms, LAMBDA m : ~m.is_eligible)
           ranked     == [r \in 1..Len(eligible) |->
                            [eligible[r] EXCEPT !.rank = Some(r)]]
       IN  [status |-> "completed", ranked_matches |-> Some(ranked \o ineligible)]

(* ApplicationEvaluationWorkflow.rank_results on the output of
   evaluate_all_lenders *)
rank_results(eval_result) ==
  IF eval_result.skipped
  THEN [status |-> "skipped", ranked_matches |-> None]
  ELSE LET ms         == eval_result.matches
           eligible   == sort_by_fit_score(SelectSeq(ms, LAMBDA m : m.is_eligible))
           ineligible == SelectSeq(ms, LAMBDA m : ~m.is_eligible)
           ranked     == [r \in 1..Len(eligible) |->
                            [eligible[r] EXCEPT !.rank = Some(r)]]
           unranked   == [i \in 1..Len(ineligible) |->
                            [ineligible[i] EXCEPT !.rank = None]]
       IN  [status |-> "completed", ranked_matches |-> Some(ranked \o unranked)]

(* LenderMatchResult.to_dict() *)
to_dict(m) ==
  [lender_id |-> m.lender_id, is_eligible |-> m.is_eligible,
   fit_score |-> m.fit_score, rank |-> m.rank]

(* the matches a ranking step is handed: two eligible lenders of score 80,
   one of 90, and two ineligible ones, with the ranks the matching service
   gave them *)
StepMatches ==
  {[lender_id |-> "a", is_eligible |-> TRUE,  fit_score |-> RatInt(80), rank |-> Some(2)],
   [lender_id |-> "b", is_eligible |-> TRUE,  fit_score |-> RatInt(90), rank |-> Some(1)],
   [lender_id |-> "c", is_eligible |-> FALSE, fit_score |-> RatInt(0),  rank |-> Some(4)],
   [lender_id |-> "d", is_eligible |-> TRUE,  fit_score |-> RatInt(80), rank |-> Some(3)],
   [lender_id |-> "e", is_eligible |-> FALSE, fit_score |-> RatInt(50), rank |-> Some(5)]}

(* the outputs of evaluate_all_lenders: skipped, or matches in any order *)
EvaluationOutputs ==
  {[skipped |-> TRUE, matches |-> <<>>]}
  \cup {[skipped |-> FALSE, matches |-> ms] : ms \in InjectiveSeqs(StepMatches, MaxLenders)}

(* The policy loader on its own, over a directory whose files are written,
   replaced and removed between the calls *)
LoaderInit ==
  /\ context = DefaultContext
  /\ registry = ImportRegistry
  /\ files = EmptyDirectory
  /\ NothingCalled

loader_frame ==
  UNCHANGED <<context, policy, lender_result, policies, matches,
              matching_result, registry, raised, returned, earlier, again,
              handed_out, rule_call, concurrent_vars, application_status,
              workflow_run>>

(* the loader call that has started and not returned *)
Current == Val(in_progress)

(* a method of the loader returns or raises *)
loader_returns(call, input, got) ==
  /\ loader' = got.loader
  /\ step_call' = Some([step |-> call, input |-> input,
                        output |-> [raised |-> got.raised, value |-> got.value]])
  /\ in_progress' = None
  /\ UNCHANGED files
  /\ loader_frame

(* a method of the loader is about to make the file-system call pc for the
   first of ids; loaded are the policies load_all_policies has so far *)
loader_goes_on(call, input, pc, ldr, ids, loaded) ==
  /\ loader' = ldr
  /\ in_progress' = Some([call |-> call, input |-> input, pc |-> pc,
                          ids |-> ids, loaded |-> loaded])
  /\ step_call' = None
  /\ UNCHANGED files
  /\ loader_frame

(* the loop of load_all_policies after a load_policy: the next id if there
   is one, the list of the policies otherwise *)
next_policy(call, input, ldr, ids, loaded) ==
  IF ids = <<>>
  THEN loader_returns(call, input,
                      [raised |-> None, value |-> Some(loaded), loader |-> ldr])
  ELSE loader_goes_on(call, input, "exists", ldr, ids, loaded)

(* load_policy has returned or raised got: that ends a call of load_policy;
   load_all_policies appends the policy, skips a PolicyLoadError when
   skip_errors, and lets any other exception out *)
policy_loaded(got) ==
  IF Current.call = "load_policy"
  THEN loader_returns(Current.call, Current.input, got)
  ELSE IF got.raised = None
  THEN next_policy(Current.call, Current.input, got.loader, Tail(Current.ids),
                   Append(Current.loaded, Val(got.value)))
  ELSE IF Current.input.skip_errors /\ Val(got.raised).type = "PolicyLoadError"
  THEN next_policy(Current.call, Current.input, got.loader, Tail(Current.ids), Current.loaded)
  ELSE loader_returns(Current.call, Current.input, got)

(* load_policy(lender_id, use_cache) up to and with exists(); the file that
   is there is opened in a later step, OpenPolicyFile *)
LoadPolicy(lender_id, use_cache) ==
  /\ in_progress = None
  /\ IF find_policy_file(loader, files, lender_id, use_cache) # None
     THEN loader_returns("load_policy",
                         [lender_id |-> lender_id, use_cache |-> use_cache],
                         Val(find_policy_file(loader, files, lender_id, use_cache)))
     ELSE loader_goes_on("load_policy",
                         [lender_id |-> lender_id, use_cache |-> use_cache],
                         "open", loader, <<lender_id>>, <<>>)

(* load_all_policies(skip_errors) up to and with the glob of
   get_all_lender_ids *)
LoadAllPolicies(skip_errors) ==
  /\ in_progress = None
  /\ \E order \in GlobOrders(files) :
       next_policy("load_all_policies", [skip_errors |-> skip_errors], loader,
                   get_all_lender_ids(files, order), <<>>)

(* get_active_policies(): load_all_policies(skip_errors=True) *)
GetActivePolicies ==
  /\ in_progress = None
  /\ \E order \in GlobOrders(files) :
       next_policy("get_active_policies", [skip_errors |-> TRUE], loader,
                   get_all_lender_ids(files, order), <<>>)

(* the load_policy(lender_id) of load_all_policies for its next id, up to and
   with exists() *)
FindPolicyFile ==
  /\ in_progress # None
  /\ Current.pc = "exists"
  /\ IF find_policy_file(loader, files, Head(Current.ids), TRUE) # None
     THEN policy_loaded(Val(find_policy_file(loader, files, Head(Current.ids), TRUE)))
     ELSE loader_goes_on(Current.call, Current.input, "open", loader, Current.ids,
                         Current.loaded)

(* load_policy from open(policy_path) to its end, on the directory as it is
   by now *)
OpenPolicyFile ==
  /\ in_progress # None
  /\ Current.pc = "open"
  /\ policy_loaded(open_policy_file(loader, files, Head(Current.ids)))

(* the policy file of a lender is written or replaced in the directory, by
   whoever maintains the policies, also while a call of the loader is under
   way *)
WriteFile(lender_id, content) ==
  /\ files' = SetItem(files, lender_id, content)
  /\ step_call' = None
  /\ UNCHANGED <<loader, in_progress>>
  /\ loader_frame

(* the policy file of a lender is removed from the directory *)
DeleteFile(lender_id) ==
  /\ lender_id \in DOMAIN files
  /\ files' = [x \in DOMAIN files \ {lender_id} |-> files[x]]
  /\ step_call' = None
  /\ UNCHANGED <<loader, in_progress>>
  /\ loader_frame

Reload ==
  /\ in_progress = None
  /\ loader' = reload(loader)
  /\ step_call' = None
  /\ UNCHANGED <<files, in_progress>>
  /\ loader_frame

Invalidate(lender_id) ==
  /\ in_progress = None
  /\ loader' = invalidate(loader, lender_id)
  /\ step_call' = None
  /\ UNCHANGED <<files, in_progress>>
  /\ loader_frame

LoaderNext ==
  \/ \E lender_id \in LenderIds, use_cache \in BOOLEAN : LoadPolicy(lender_id, use_cache)
  \/ \E skip_errors \in BOOLEAN : LoadAllPolicies(skip_errors)
  \/ GetActivePolicies
  \/ FindPolicyFile
  \/ OpenPolicyFile
  \/ \E lender_id \in LenderIds, content \in FileContents : WriteFile(lender_id, content)
  \/ \E lender_id \in LenderIds : DeleteFile(lender_id)
  \/ Reload
  \/ \E lender_id \in LenderIds : Invalidate(lender_id)

LoaderSpec == LoaderInit /\ [][LoaderNext]_vars

(* the characters str.strip() removes, those str.isspace() holds of: the
   ASCII ones by their escapes, the others by their code points *)
Whitespace ==
  {" ", "\t", "\n", "\r", "\f", "U+000B", "U+001C", "U+001D", "U+001E",
   "U+001F", "U+0085", "U+00A0", "U+1680", "U+2000", "U+2001", "U+2002",
   "U+2003", "U+2004", "U+2005", "U+2006", "U+2007", "U+2008", "U+2009",
   "U+200A", "U+2028", "U+2029", "U+202F", "U+205F", "U+3000"}

(* not value.strip(): the string is empty or has whitespace only *)
IsBlank(s) == \A i \in 1..Len(s) : s[i] \in Whitespace

(* the application_data dict submit_application builds: the validated
   fields at top level and again inside the guarantor and business dicts the
   context is built from *)
ApplicationData ==
  {[fico_score |-> f, state |-> s, loan_amount |-> a,
    equipment_category |-> CleanProfile.equipment_category,
    guarantor |-> [fico_score |-> f], business |-> [state |-> s]] :
     f \in {None, Some(200), Some(720)},
     s \in {<<>>, <<" ">>, <<"\t","\n">>, <<"U+00A0">>, <<"t","x">>, <<"c","a">>},
     a \in {Some(0), Some(15000)}}

(* ApplicationEvaluationWorkflow.validate_application: the errors found *)
validate_application(application_data) ==
  (IF IsNone(application_data.fico_score)
   THEN <<[field |-> "fico_score", message |-> "FICO score is required"]>>
   ELSE <<>>)
  \o (IF IsBlank(application_data.state)
      THEN <<[field |-> "state", message |-> "State is required"]>> ELSE <<>>)
  \o (IF IsNone(application_data.loan_amount)
      THEN <<[field |-> "loan_amount", message |-> "Loan amount is required"]>>
      ELSE <<>>)
  \o (IF IsBlank(application_data.equipment_category)
      THEN <<[field |-> "equipment_category",
              message |-> "Equipment category is required"]>>
      ELSE <<>>)
  \o (IF ~IsNone(application_data.fico_score)
         /\ (Val(application_data.fico_score) < 300
             \/ Val(application_data.fico_score) > 850)
      THEN <<[field |-> "fico_score",
              message |-> "FICO score must be between 300 and 850"]>>
      ELSE <<>>)
  \o (IF ~IsNone(application_data.loan_amount)
         /\ Val(application_data.loan_amount) <= 0
      THEN <<[field |-> "loan_amount",
              message |-> "Loan amount must be a positive integer"]>>
      ELSE <<>>)

(* build_evaluation_context as evaluate_all_lenders calls it: the score of
   the guarantor dict, the state of the business dict, the loan amount and
   the equipment category; every other field at its default *)
build_evaluation_context(application_data) ==
  [DefaultContext EXCEPT
     !.fico_score = application_data.guarantor.fico_score,
     !.state = application_data.business.state,
     !.loan_amount = Val(application_data.loan_amount),
     !.equipment_category = application_data.equipment_category]

(* ApplicationDBManager.update_status on the application's row *)
update_status(stored, status) ==
  IF status \in {"processing", "completed", "error"} THEN status ELSE stored

(* The coroutines of the workflow give the event loop back at their awaits:
   trigger_evaluation at hatchet.admin.run_workflow, at asyncio.gather
   (reached through workflow.run, evaluate_all_lenders and
   match_application_async) and at each call of the database manager.  A
   call is in in_progress from its start to its return, with the await it is
   at in pc, the value it is going to return in result and the status the
   row had when it started in stored; each action runs the coroutine from
   one await to the next.  The status updates and the commit succeed;
   sync_lenders and save_match_results succeed or raise *)

(* the directories the workflow's own PolicyLoader() reads *)
WorkflowDirectories == {Directory(pols) : pols \in SUBSET AsyncLenders}

WorkflowInit ==
  /\ context = DefaultContext
  /\ registry \in {ImportRegistry, clear(ImportRegistry)}
  /\ files \in WorkflowDirectories
  /\ NothingCalled

NoStepCalled == step_call = None /\ workflow_run = None /\ in_progress = None

(* what no step of the workflow touches *)
workflow_frame ==
  UNCHANGED <<policy, lender_result, matches, matching_result, raised,
              returned, earlier, again, handed_out, rule_call, threads,
              loader_vars>>

(* the call has not reached the matching service, or is past it *)
not_matching == UNCHANGED <<context, policies, tasks, completed, registry>>

(* the data that pass validate_application *)
ValidApplicationData ==
  {application_data \in ApplicationData :
     validate_application(application_data) = <<>>}

(* a call of name call with the input input, at its start *)
Started(call, input) ==
  [call |-> call, input |-> input, pc |-> "start", result |-> None,
   stored |-> application_status]

(* the call returns output; run is the WorkflowRun trigger_evaluation hands
   back, None for every other call *)
call_returns(call, output, run) ==
  /\ step_call' = Some([step |-> call.call, input |-> call.input,
                        output |-> output])
  /\ workflow_run' = run
  /\ in_progress' = None

(* the call reaches the await pc with result as the value it is to return *)
call_awaits(call, pc, result) ==
  /\ in_progress' = Some([call EXCEPT !.pc = pc, !.result = result])
  /\ UNCHANGED <<step_call, workflow_run>>

(* step 4 of run on what step 3 gave: the ranking of the matches of the
   MatchingResult, or the exception of the matching *)
rank_evaluation(got) ==
  IF got.raised # None THEN got
  ELSE [raised |-> None,
        value  |-> Some(rank_results(
                          [skipped |-> FALSE,
                           matches |-> MapSeq(to_dict, Val(got.value).matches)]))]

(* the output of evaluate_all_lenders: the matches of the MatchingResult as
   dicts, or the exception of the matching *)
evaluation_output(got) ==
  IF got.raised # None THEN got
  ELSE [raised |-> None,
        value  |-> Some([skipped |-> FALSE,
                         matches |-> MapSeq(to_dict, Val(got.value).matches)])]

(* trigger_evaluation from the return of workflow.run on (triggers.py
   80-103): the WorkflowRun takes the status of the result; with a session
   and the status "completed" the results are stored next; an exception
   makes the run "failed" and, with a session, the row "error" *)
run_returns(call, got) ==
  IF call.call = "trigger_evaluation_sync"
  THEN call_returns(call, got, None)
  ELSE IF got.raised # None
  THEN IF call.input.db
       THEN call_awaits(call, "update_status_error",
                        Some([status |-> "failed", result |-> got.raised]))
       ELSE call_returns(call, [status |-> "failed", result |-> got.raised],
                         Some([status |-> "failed", result |-> got.raised]))
  ELSE IF call.input.db /\ Val(got.value).status = "completed"
  THEN call_awaits(call, "update_status",
                   Some([status |-> "completed", result |-> got.value]))
  ELSE call_returns(call,
                    [status |-> Val(got.value).status, result |-> got.value],
                    Some([status |-> Val(got.value).status, result |-> got.value]))

(* the matching service has an outcome: evaluate_all_lenders on its own
   returns it as dicts, run ranks it and returns *)
matching_returns(call, got) ==
  IF call.call = "evaluate_all_lenders"
  THEN call_returns(call, evaluation_output(got), None)
  ELSE run_returns(call, rank_evaluation(got))

(* evaluate_all_lenders from build_evaluation_context on: the matching
   service loads the policies ps and creates one coroutine for each; the
   call waits in gather for them, or has the result of no match at once
   when there is no policy *)
evaluates_all_lenders(call, application_data, ps) ==
  IF ps = <<>>
  THEN /\ matching_returns(call, [raised |-> None,
                                  value |-> Some(build_result(<<>>))])
       /\ not_matching
  ELSE /\ call_awaits(call, "gather", None)
       /\ context' = build_evaluation_context(application_data)
       /\ policies' = ps
       /\ tasks' = [i \in 1..Len(ps) |->
                      [done |-> FALSE, raised |-> None, value |-> None]]
       /\ UNCHANGED <<completed, registry>>

(* ApplicationEvaluationWorkflow().run(application_data) up to its first
   await that waits: data that fail the validation end it with
   "validation_failed"; a new PolicyLoader gives the active policies in the
   order order of the files *)
workflow_runs(call, application_data, order) ==
  IF validate_application(application_data) # <<>>
  THEN /\ run_returns(call, [raised |-> None,
                             value |-> Some([status |-> "validation_failed",
                                             ranked_matches |-> None])])
       /\ not_matching
  ELSE evaluates_all_lenders(
         call, application_data,
         Val(get_active_policies(PolicyLoader, files, order).value))

(* ApplicationEvaluationWorkflow.rank_results(context), also the exported
   step rank_results: it has no await that waits *)
RankResults(eval_result) ==
  /\ NoStepCalled
  /\ call_returns(Started("rank_results", eval_result),
                  rank_results(eval_result), None)
  /\ UNCHANGED application_status
  /\ not_matching
  /\ workflow_frame

(* the application_id of the workflow input of a Hatchet run: the UUID
   string trigger_evaluation passes to run_workflow, an empty string, or
   none *)
ApplicationIds ==
  {None, Some(<<>>),
   Some(<<"0","0","0","0","0","0","0","0","-","0","0","0","0","-",
          "4","0","0","0","-","8","0","0","0","-",
          "0","0","0","0","0","0","0","0","0","0","0","1">>)}

(* Python truthiness of an Optional[str]: None and "" are falsy *)
TruthyStr(o) == o # <<>> /\ o[1] # <<>>

(* HatchetApplicationEvaluationWorkflow.rank_results(context) up to its
   await of update_status: the ranking, which it returns whatever becomes of
   the persistence, and at once when the workflow input has no
   application_id *)
HatchetRankResults(eval_result, application_id) ==
  /\ NoStepCalled
  /\ IF TruthyStr(application_id)
     THEN call_awaits(Started("hatchet_rank_results",
                              [skipped |-> eval_result.skipped,
                               matches |-> eval_result.matches,
                               application_id |-> application_id]),
                      "update_status", Some(rank_results(eval_result)))
     ELSE call_returns(Started("rank_results",
                               [skipped |-> eval_result.skipped,
                                matches |-> eval_result.matches,
                                application_id |-> application_id]),
                       rank_results(eval_result), None)
  /\ UNCHANGED application_status
  /\ not_matching
  /\ workflow_frame

(* evaluate_all_lenders(context), the step on its own: skipped when the
   derive_features step was *)
EvaluateAllLenders(derive_skipped, application_data) ==
  /\ NoStepCalled
  /\ IF derive_skipped
     THEN /\ call_returns(
               Started("evaluate_all_lenders",
                       [derive_skipped |-> derive_skipped,
                        application_data |-> application_data]),
               [raised |-> None,
                value |-> Some([skipped |-> TRUE, matches |-> <<>>])], None)
          /\ not_matching
     ELSE \E order \in GlobOrders(files) :
            evaluates_all_lenders(
              Started("evaluate_all_lenders",
                      [derive_skipped |-> derive_skipped,
                       application_data |-> application_data]),
              application_data,
              Val(get_active_policies(PolicyLoader, files, order).value))
  /\ UNCHANGED application_status
  /\ workflow_frame

(* trigger_evaluation_sync(application_id, application_data): the workflow
   run in an event loop of its own *)
TriggerEvaluationSync(application_data) ==
  /\ NoStepCalled
  /\ \E order \in GlobOrders(files) :
       workflow_runs(Started("trigger_evaluation_sync",
                             [application_data |-> application_data]),
                     application_data, order)
  /\ UNCHANGED application_status
  /\ workflow_frame

(* trigger_evaluation(application_id, application_data, db) up to its first
   await that waits.  hatchet is "none" when no client is configured,
   "running" when the client starts the workflow, "failed" when its
   run_workflow raises; db tells whether a session was passed *)
TriggerEvaluation(application_data, hatchet, db) ==
  /\ NoStepCalled
  /\ IF hatchet # "none"
     THEN /\ call_awaits(Started("trigger_evaluation",
                                 [application_data |-> application_data,
                                  hatchet |-> hatchet, db |-> db]),
                         "run_workflow", None)
          /\ not_matching
     ELSE \E order \in GlobOrders(files) :
            workflow_runs(Started("trigger_evaluation",
                                  [application_data |-> application_data,
                                   hatchet |-> hatchet, db |-> db]),
                          application_data, order)
  /\ UNCHANGED application_status
  /\ workflow_frame

(* the await of hatchet.admin.run_workflow ends: the WorkflowRun "running" is
   returned, or the exception is caught and the workflow run here *)
RunWorkflowReturns ==
  /\ in_progress # None
  /\ Current.pc = "run_workflow"
  /\ IF Current.input.hatchet = "running"
     THEN /\ call_returns(Current, [status |-> "running", result |-> None],
                          Some([status |-> "running", result |-> None]))
          /\ not_matching
     ELSE \E order \in GlobOrders(files) :
            workflow_runs(Current, Current.input.application_data, order)
  /\ UNCHANGED application_status
  /\ workflow_frame

(* what gather hands back: the first exception a task raised, or the
   MatchingResult _build_result makes of the list of all results *)
gathered(ts, order) ==
  IF \E k \in 1..Len(order) : ts[order[k]].raised # None
  THEN [raised |-> ts[order[CHOOSE k \in 1..Len(order) :
                        /\ ts[order[k]].raised # None
                        /\ \A j \in 1..(k - 1) : ts[order[j]].raised = None]].raised,
        value  |-> None]
  ELSE [raised |-> None, value |-> Some(build_result(gather(ts, order)))]

(* the await of asyncio.gather ends, as soon as a task has raised or when
   all are done, and the coroutine goes on to its next await or its end *)
GatherReturns ==
  /\ in_progress # None
  /\ Current.pc = "gather"
  /\ \/ \E k \in 1..Len(completed) : tasks[completed[k]].raised # None
     \/ \A i \in 1..Len(tasks) : tasks[i].done
  /\ matching_returns(Current, gathered(tasks, completed))
  /\ UNCHANGED application_status
  /\ not_matching
  /\ workflow_frame

(* await db_manager.update_status(id, "completed") *)
UpdateStatusCompleted ==
  /\ in_progress # None
  /\ Current.pc = "update_status"
  /\ application_status' = update_status(application_status, "completed")
  /\ call_awaits(Current, "sync_lenders", Current.result)
  /\ not_matching
  /\ workflow_frame

(* sync_lenders or save_match_results has raised: trigger_evaluation makes
   its run "failed" and stores "error"; the Hatchet step rolls its session
   back first *)
persistence_fails ==
  /\ IF Current.call = "trigger_evaluation"
     THEN call_awaits(Current, "update_status_error",
                      Some([status |-> "failed",
                            result |-> Some([type |-> "Exception",
                                             message |-> Msg("persist", <<>>)])]))
     ELSE call_awaits(Current, "rollback", Current.result)
  /\ UNCHANGED application_status

(* await db_manager.sync_lenders(policies), after load_all_policies of a
   loader of its own *)
SyncLenders(fails) ==
  /\ in_progress # None
  /\ Current.pc = "sync_lenders"
  /\ IF fails THEN persistence_fails
     ELSE /\ call_awaits(Current, "save_match_results", Current.result)
          /\ UNCHANGED application_status
  /\ not_matching
  /\ workflow_frame

(* await db_manager.save_match_results(id, ranked_matches): the last await
   of trigger_evaluation; the Hatchet step commits next *)
SaveMatchResults(fails) ==
  /\ in_progress # None
  /\ Current.pc = "save_match_results"
  /\ IF fails THEN persistence_fails
     ELSE /\ IF Current.call = "trigger_evaluation"
             THEN call_returns(Current, Val(Current.result), Current.result)
             ELSE call_awaits(Current, "commit", Current.result)
          /\ UNCHANGED application_status
  /\ not_matching
  /\ workflow_frame

(* await db.commit() of the Hatchet step, which then returns its ranking *)
Commit ==
  /\ in_progress # None
  /\ Current.pc = "commit"
  /\ call_returns([Current EXCEPT !.call = "rank_results"], Val(Current.result), None)
  /\ UNCHANGED application_status
  /\ not_matching
  /\ workflow_frame

(* await db.rollback() of the Hatchet step: the row is again as it was
   before the step's session changed it *)
Rollback ==
  /\ in_progress # None
  /\ Current.pc = "rollback"
  /\ application_status' = Current.stored
  /\ call_awaits(Current, "update_status_error", Current.result)
  /\ not_matching
  /\ workflow_frame

(* await db_manager.update_status(id, "error"): trigger_evaluation returns
   its failed run; the Hatchet step, which made the update in a session of
   its own, commits that session next *)
UpdateStatusError ==
  /\ in_progress # None
  /\ Current.pc = "update_status_error"
  /\ application_status' = update_status(application_status, "error")
  /\ IF Current.call = "trigger_evaluation"
     THEN call_returns(Current, Val(Current.result), Current.result)
     ELSE call_awaits(Current, "commit_error", Current.result)
  /\ not_matching
  /\ workflow_frame

(* await error_db.commit() of the Hatchet step; the exception of the
   persistence is raised again, caught and logged by the outer handler, and
   the step returns its ranking *)
CommitError ==
  /\ in_progress # None
  /\ Current.pc = "commit_error"
  /\ call_returns([Current EXCEPT !.call = "rank_results"], Val(Current.result), None)
  /\ UNCHANGED application_status
  /\ not_matching
  /\ workflow_frame

WorkflowNext ==
  \/ \E eval_result \in EvaluationOutputs : RankResults(eval_result)
  \/ \E eval_result \in EvaluationOutputs, application_id \in ApplicationIds :
       HatchetRankResults(eval_result, application_id)
  \/ \E derive_skipped \in BOOLEAN, application_data \in ValidApplicationData :
       EvaluateAllLenders(derive_skipped, application_data)
  \/ \E application_data \in ApplicationData :
       TriggerEvaluationSync(application_data)
  \/ \E application_data \in ApplicationData, hatchet \in {"none", "running", "failed"},
        db \in BOOLEAN :
       TriggerEvaluation(application_data, hatchet, db)
  \/ RunWorkflowReturns
  \/ \E i \in 1..Len(tasks) : RunTask(i)
  \/ GatherReturns
  \/ UpdateStatusCompleted
  \/ \E fails \in BOOLEAN : SyncLenders(fails)
  \/ \E fails \in BOOLEAN : SaveMatchResults(fails)
  \/ Commit
  \/ Rollback
  \/ UpdateStatusError
  \/ CommitError

WorkflowSpec == WorkflowInit /\ [][WorkflowNext]_vars

-----------------------------------------------------------------------------
(* Properties of MatchingEngine.evaluate_lender *)

EngineCalled == lender_result # None

Res == Val(lender_result)

Pol == Val(policy)

GeographicFails(ctx, pol) ==
  /\ ~IsNone(pol.restrictions) /\ ~IsNone(Val(pol.restrictions).geographic)
  /\ evaluate_geographic_restriction(ctx, Val(Val(pol.restrictions).geographic)) # None

IndustryFails(ctx, pol) ==
  /\ ~IsNone(pol.restrictions) /\ ~IsNone(Val(pol.restrictions).industry)
  /\ evaluate_industry_restriction(ctx, Val(Val(pol.restrictions).industry)) # None

TransactionFails(ctx, pol) ==
  /\ ~IsNone(pol.restrictions) /\ ~IsNone(Val(pol.restrictions).transaction)
  /\ evaluate_transaction_restriction(ctx, Val(Val(pol.restrictions).transaction)) # None

EquipmentFails(ctx, pol) ==
  /\ ~IsNone(pol.restrictions) /\ ~IsNone(Val(pol.restrictions).equipment)
  /\ evaluate_equipment_restriction(ctx, Val(Val(pol.restrictions).equipment)) # None

AnyRestrictionFails(ctx, pol) ==
  \/ GeographicFails(ctx, pol) \/ IndustryFails(ctx, pol)
  \/ TransactionFails(ctx, pol) \/ EquipmentFails(ctx, pol)

(* C1: when a lender-wide restriction fails the result has no program
   results, is ineligible and has a non-empty global_rejection_reasons; when
   none fails global_rejection_reasons is empty *)
C1_RestrictionFailureStopsLender ==
  EngineCalled =>
    /\ AnyRestrictionFails(context, Pol) =>
          /\ Res.program_results = <<>>
          /\ ~Res.is_eligible
          /\ Res.global_rejection_reasons # <<>>
    /\ ~AnyRestrictionFails(context, Pol) => Res.global_rejection_reasons = <<>>

(* the geographic restriction failed on a policy one of whose programs the
   application qualifies for *)
C1_Witness ==
  /\ EngineCalled
  /\ GeographicFails(context, Pol)
  /\ \E i \in 1..Len(Pol.programs) :
       evaluate_program(context, Pol.programs[i]).is_eligible
  /\ Res.program_results = <<>> /\ ~Res.is_eligible
  /\ Res.global_rejection_reasons # <<>>

(* the message of the failing result of each restriction, in the order
   geographic, industry, transaction, equipment *)
FailingRestrictionMessages(ctx, pol) ==
  LET r == Val(pol.restrictions)
      MsgOf(o) == IF o = None THEN <<>> ELSE <<Val(o).message>>
  IN  (IF GeographicFails(ctx, pol)
       THEN MsgOf(evaluate_geographic_restriction(ctx, Val(r.geographic))) ELSE <<>>)
      \o (IF IndustryFails(ctx, pol)
          THEN MsgOf(evaluate_industry_restriction(ctx, Val(r.industry))) ELSE <<>>)
      \o (IF TransactionFails(ctx, pol)
          THEN MsgOf(evaluate_transaction_restriction(ctx, Val(r.transaction))) ELSE <<>>)
      \o (IF EquipmentFails(ctx, pol)
          THEN MsgOf(evaluate_equipment_restriction(ctx, Val(r.equipment))) ELSE <<>>)

(* C2 as stated: only the reason of the first failing restriction, in the
   order geographic, industry, transaction, equipment, is recorded *)
C2_OnlyFirstFailingReason ==
  (EngineCalled /\ AnyRestrictionFails(context, Pol)) =>
    Res.global_rejection_reasons = <<FailingRestrictionMessages(context, Pol)[1]>>

(* C2 amended: every declared restriction is evaluated, and
   global_rejection_reasons holds the reason of every failing restriction in
   the order geographic, industry, transaction, equipment; no program is
   evaluated once one of them failed *)
C2_EveryFailingReasonInOrder ==
  (EngineCalled /\ AnyRestrictionFails(context, Pol)) =>
    /\ Res.global_rejection_reasons = FailingRestrictionMessages(context, Pol)
    /\ Res.program_results = <<>>

(* the geographic and the industry restriction both failed, and both reasons
   were recorded, the geographic one first *)
C2_Witness ==
  /\ EngineCalled
  /\ GeographicFails(context, Pol) /\ IndustryFails(context, Pol)
  /\ ~TransactionFails(context, Pol) /\ ~EquipmentFails(context, Pol)
  /\ Len(Res.global_rejection_reasons) = 2
  /\ Res.global_rejection_reasons[1][1] = "State {} is not in the allowed list"
  /\ Res.global_rejection_reasons[2][1] = "Industry '{}' is excluded by this lender"

-----------------------------------------------------------------------------
(* Properties of MatchingEngine._evaluate_program *)

BelowMin(ctx, program) ==
  ~IsNone(program.min_amount) /\ ctx.loan_amount < Val(program.min_amount)

AboveMax(ctx, program) ==
  ~IsNone(program.max_amount) /\ ctx.loan_amount > Val(program.max_amount)

AllPassed(results) == \A i \in 1..Len(results) : results[i].passed

(* C3: a program whose min_amount is above, or whose max_amount is below, the
   loan amount is ineligible, whatever its criteria sections say and whether
   or not a loan_amount section is configured *)
C3_ProgramBoundsAlwaysChecked ==
  EngineCalled =>
    \A i \in 1..Len(Res.program_results) :
      (BelowMin(context, Pol.programs[i]) \/ AboveMax(context, Pol.programs[i]))
        => ~Res.program_results[i].is_eligible

(* a program without a loan_amount section, every criteria section of which
   passed, rejected for its max_amount alone *)
C3_Witness ==
  /\ EngineCalled
  /\ \E i \in 1..Len(Res.program_results) :
       /\ AboveMax(context, Pol.programs[i])
       /\ IsNone(Pol.programs[i].criteria.loan_amount)
       /\ AllPassed(evaluate_criteria(context, Pol.programs[i].criteria))
       /\ ~Res.program_results[i].is_eligible

BoundsMinMessage == Msg("Loan amount below program minimum", <<>>)

BoundsMaxMessage == Msg("Loan amount exceeds program maximum", <<>>)

(* C4 as stated: a program is eligible iff none of its RuleResults failed,
   and the message of every failed RuleResult is among its rejection reasons *)
C4_FailedMessagesAreReasons ==
  EngineCalled =>
    \A i \in 1..Len(Res.program_results) :
      LET p == Res.program_results[i]
      IN  /\ p.is_eligible <=> AllPassed(p.criteria_results)
          /\ \A k \in 1..Len(p.criteria_results) :
                ~p.criteria_results[k].passed
                  => InList(p.criteria_results[k].message, p.rejection_reasons)

(* C4 amended: a program is eligible iff none of its RuleResults failed; the
   message of every failed RuleResult of a criteria section is among its
   rejection reasons; a failed program-bounds RuleResult, whose message is
   the fixed "Loan amount below program minimum" or "Loan amount exceeds
   program maximum", is represented there by the formatted reason
   "Loan amount $X below minimum $Y" or "Loan amount $X exceeds maximum $Y";
   there are as many rejection reasons as failed RuleResults *)
C4_FailedResultsHaveReasons ==
  EngineCalled =>
    \A i \in 1..Len(Res.program_results) :
      LET p == Res.program_results[i]
          program == Pol.programs[i]
      IN  /\ p.is_eligible <=> AllPassed(p.criteria_results)
          /\ Len(p.rejection_reasons) = failed_criteria_count(p)
          /\ \A k \in 1..Len(p.criteria_results) :
                LET r == p.criteria_results[k]
                IN  ~r.passed =>
                      IF r.message = BoundsMinMessage
                      THEN InList(Msg("Loan amount ${} below minimum ${}",
                                      <<FormatDollars(context.loan_amount),
                                        FormatDollars(Val(program.min_amount))>>),
                                  p.rejection_reasons)
                      ELSE IF r.message = BoundsMaxMessage
                      THEN InList(Msg("Loan amount ${} exceeds maximum ${}",
                                      <<FormatDollars(context.loan_amount),
                                        FormatDollars(Val(program.max_amount))>>),
                                  p.rejection_reasons)
                      ELSE InList(r.message, p.rejection_reasons)

(* a program that failed its minimum bound and two criteria sections *)
C4_Witness ==
  /\ EngineCalled
  /\ \E i \in 1..Len(Res.program_results) :
       LET p == Res.program_results[i]
       IN  /\ BelowMin(context, Pol.programs[i])
           /\ failed_criteria_count(p) = 3
           /\ Len(p.rejection_reasons) = 3

ScoreOrZero(r) == IF r.passed THEN r.score ELSE RatInt(0)

(* C5: with at least one RuleResult collected the fit score is the mean of
   the scores of all of them, a failed one counting 0; with none it is 100
   for an eligible program and 0 for an ineligible one *)
C5_FitScoreIsMeanOfAllResults ==
  EngineCalled =>
    \A i \in 1..Len(Res.program_results) :
      LET p == Res.program_results[i]
          n == Len(p.criteria_results)
      IN  IF n > 0
          THEN /\ RatMul(p.fit_score, RatInt(n))
                    = RatSum([k \in 1..n |-> ScoreOrZero(p.criteria_results[k])])
               /\ RatMul(p.fit_score, RatInt(n))
                    = RatSum([k \in 1..n |-> p.criteria_results[k].score])
          ELSE p.fit_score = IF p.is_eligible THEN RatInt(100) ELSE RatInt(0)

(* a program with one passed result of score 76 and one failed result: 38 *)
C5_Witness ==
  /\ EngineCalled
  /\ \E i \in 1..Len(Res.program_results) :
       LET p == Res.program_results[i]
       IN  /\ Len(p.criteria_results) = 2
           /\ failed_criteria_count(p) = 1
           /\ p.fit_score = RatInt(38)

-----------------------------------------------------------------------------
(* Properties of the best-program selection of evaluate_lender *)

(* program result k is eligible with the largest fit score of the eligible
   program results, and no earlier eligible one reaches that score *)
IsFirstBestEligible(prs, k) ==
  /\ prs[k].is_eligible
  /\ \A j \in 1..Len(prs) :
       prs[j].is_eligible => RatLE(prs[j].fit_score, prs[k].fit_score)
  /\ \A j \in 1..(k - 1) :
       prs[j].is_eligible => RatLT(prs[j].fit_score, prs[k].fit_score)

(* C6: when no restriction fails, the lender is eligible iff one of its
   programs is; then best_program is the eligible program with the largest
   fit score, the earliest in program order among equals, and the lender's
   fit score is that program's *)
C6_BestEligibleProgram ==
  (EngineCalled /\ ~AnyRestrictionFails(context, Pol)) =>
    LET prs == Res.program_results
    IN  /\ Len(prs) = Len(Pol.programs)
        /\ Res.is_eligible <=> \E j \in 1..Len(prs) : prs[j].is_eligible
        /\ Res.is_eligible =>
              \E k \in 1..Len(prs) :
                /\ IsFirstBestEligible(prs, k)
                /\ Res.best_program = Some(prs[k])
                /\ Res.fit_score = prs[k].fit_score

(* two eligible programs share the largest fit score and the first of them
   was selected *)
C6_Witness ==
  /\ EngineCalled
  /\ Res.is_eligible
  /\ Len(Res.program_results) = 2
  /\ Res.program_results[1].is_eligible /\ Res.program_results[2].is_eligible
  /\ Res.program_results[1].fit_score = Res.program_results[2].fit_score
  /\ Res.program_results[1].program_id # Res.program_results[2].program_id
  /\ Val(Res.best_program).program_id = Res.program_results[1].program_id
  /\ RatLT(RatInt(0), Res.fit_score) /\ RatLT(Res.fit_score, RatInt(100))

(* program result k has the fewest failed RuleResults, and no earlier one has
   as few *)
IsFirstClosest(prs, k) ==
  /\ \A j \in 1..Len(prs) :
       failed_criteria_count(prs[k]) <= failed_criteria_count(prs[j])
  /\ \A j \in 1..(k - 1) :
       failed_criteria_count(prs[k]) < failed_criteria_count(prs[j])

(* C7: when no restriction fails, the policy has a program and none is
   eligible, best_program is the program with the fewest failed RuleResults,
   the earliest in program order among equals, and the lender stays
   ineligible *)
C7_ClosestProgram ==
  (/\ EngineCalled /\ ~AnyRestrictionFails(context, Pol)
   /\ Pol.programs # <<>>
   /\ \A j \in 1..Len(Res.program_results) : ~Res.program_results[j].is_eligible) =>
    LET prs == Res.program_results
    IN  /\ ~Res.is_eligible
        /\ \E k \in 1..Len(prs) :
              /\ IsFirstClosest(prs, k)
              /\ Res.best_program = Some(prs[k])

(* two ineligible programs with the same number of failures, different fit
   scores, and the first one selected *)
C7_Witness ==
  /\ EngineCalled
  /\ ~Res.is_eligible
  /\ Len(Res.program_results) = 2
  /\ failed_criteria_count(Res.program_results[1])
       = failed_criteria_count(Res.program_results[2])
  /\ RatLT(Res.program_results[1].fit_score, Res.program_results[2].fit_score)
  /\ Val(Res.best_program).program_id = Res.program_results[1].program_id

-----------------------------------------------------------------------------
(* Properties of LenderMatchingService.match_application *)

ServiceCalled == matching_result # None

MR == Val(matching_result)

(* the position of lender id in the evaluated policy list *)
PolicyIndex(id) == CHOOSE i \in 1..Len(policies) : policies[i].id = id

(* C8: in matches every eligible entry precedes every ineligible one, and
   within the eligible and within the ineligible entries the fit score never
   increases from one position to the next *)
C8_EligibleFirstThenByScore ==
  ServiceCalled =>
    \A i, j \in 1..Len(MR.matches) :
      i < j =>
        /\ MR.matches[j].is_eligible => MR.matches[i].is_eligible
        /\ MR.matches[i].is_eligible = MR.matches[j].is_eligible
             => RatLE(MR.matches[j].fit_score, MR.matches[i].fit_score)

(* an eligible lender of fit score 0 ranked above an ineligible lender of a
   positive fit score that was evaluated before it *)
C8_Witness ==
  /\ ServiceCalled
  /\ \E i, j \in 1..Len(MR.matches) :
       /\ i < j
       /\ MR.matches[i].is_eligible /\ MR.matches[i].fit_score = RatInt(0)
       /\ ~MR.matches[j].is_eligible /\ RatLT(RatInt(0), MR.matches[j].fit_score)
       /\ PolicyIndex(MR.matches[j].lender_id) < PolicyIndex(MR.matches[i].lender_id)

(* C9: two entries of matches with the same eligibility and the same fit
   score are in the order their policies had in the evaluated list *)
C9_TiesKeepPolicyOrder ==
  ServiceCalled =>
    \A i, j \in 1..Len(MR.matches) :
      (/\ i < j
       /\ MR.matches[i].is_eligible = MR.matches[j].is_eligible
       /\ MR.matches[i].fit_score = MR.matches[j].fit_score)
        => PolicyIndex(MR.matches[i].lender_id) < PolicyIndex(MR.matches[j].lender_id)

(* two eligible lenders tie behind a better lender that was evaluated last *)
C9_Witness ==
  /\ ServiceCalled
  /\ Len(MR.matches) = 3
  /\ MR.matches[2].is_eligible /\ MR.matches[3].is_eligible
  /\ MR.matches[2].fit_score = MR.matches[3].fit_score
  /\ RatLT(MR.matches[2].fit_score, MR.matches[1].fit_score)
  /\ PolicyIndex(MR.matches[1].lender_id) = 3

(* C10: the entry at position i of matches has rank i, ineligible entries
   included; no rank is null and none repeats *)
C10_RanksAreSequential ==
  ServiceCalled =>
    /\ \A i \in 1..Len(MR.matches) : MR.matches[i].rank = Some(i)
    /\ \A i \in 1..Len(MR.matches) : MR.matches[i].rank # None
    /\ \A i, j \in 1..Len(MR.matches) :
         i # j => MR.matches[i].rank # MR.matches[j].rank

(* an eligible lender ranked 1 and two ineligible lenders ranked 2 and 3 *)
C10_Witness ==
  /\ ServiceCalled
  /\ Len(MR.matches) = 3
  /\ MR.matches[1].is_eligible /\ MR.matches[1].rank = Some(1)
  /\ ~MR.matches[2].is_eligible /\ MR.matches[2].rank = Some(2)
  /\ ~MR.matches[3].is_eligible /\ MR.matches[3].rank = Some(3)

(* C11: best_match is the first entry of matches when that entry is eligible
   and null otherwise; it is non-null exactly when total_eligible > 0;
   total_evaluated is the number of policies evaluated, total_eligible the
   number of eligible entries, and every evaluated lender appears in matches
   exactly once *)
C11_BestMatchAndTotals ==
  ServiceCalled =>
    /\ MR.best_match =
         IF MR.matches # <<>> /\ MR.matches[1].is_eligible
         THEN Some(MR.matches[1]) ELSE None
    /\ MR.best_match # None <=> MR.total_eligible > 0
    /\ MR.total_evaluated = Len(policies)
    /\ MR.total_eligible =
         Cardinality({i \in 1..Len(MR.matches) : MR.matches[i].is_eligible})
    /\ Len(MR.matches) = Len(policies)
    /\ \A k \in 1..Len(policies) :
         Cardinality({i \in 1..Len(MR.matches) :
                        MR.matches[i].lender_id = policies[k].id}) = 1

(* three lenders evaluated, none of them eligible: the top entry is not the
   best match, there is none *)
C11_Witness ==
  /\ ServiceCalled
  /\ Len(policies) = 3
  /\ MR.total_evaluated = 3 /\ MR.total_eligible = 0
  /\ \A i \in 1..3 : ~MR.matches[i].is_eligible
  /\ RatLT(RatInt(0), MR.matches[1].fit_score)
  /\ MR.best_match = None

-----------------------------------------------------------------------------
(* Properties of evaluations on the registry *)

(* C12: an evaluate_lender call for a context and policy evaluated before,
   with any other evaluations and lookups between the two calls, ends as the
   first one did: it raises the same exception or returns a result with the
   same eligibility, fit score, best program and program results (RuleResult
   lists included); and no evaluate_lender call changes the context or the
   set of registered keys *)
C12_EvaluateLenderIsIdempotent ==
  /\ [](policy # None =>
          \A e \in earlier :
            e.policy = Pol => e.raised = raised /\ e.value = lender_result)
  /\ [][policy' # None =>
          /\ context' = context
          /\ DOMAIN registry'.rules = DOMAIN registry.rules]_vars

(* tier_bank is evaluated for the second time, after an evaluation of
   open_bank, and finds the rule instances its first evaluation cached *)
C12_Witness ==
  /\ EngineCalled
  /\ again
  /\ Pol.id = tier_bank
  /\ \E e \in earlier : e.policy.id = open_bank
  /\ Res.is_eligible
  /\ Len(Res.program_results[1].criteria_results) = 2
  /\ DOMAIN registry.instances = {"credit_score", "loan_amount"}

(* the lender-wide restrictions of the evaluated policy all pass, so that
   its programs are evaluated *)
ProgramsEvaluated ==
  restricted_result(Pol,
    IF ~IsNone(Pol.restrictions)
    THEN evaluate_restrictions(context, Val(Pol.restrictions))
    ELSE <<>>).global_rejection_reasons = <<>>

(* the keys of the criteria sections present on a program *)
PresentSections(program) ==
  {k \in {"credit_score", "business", "credit_history", "equipment",
          "geographic", "industry", "transaction", "loan_amount"} :
     ~IsNone(program.criteria[k])}

(* the sections _evaluate_criteria hands to a rule of the registry *)
RegistrySections ==
  {"credit_score", "business", "credit_history", "equipment", "loan_amount"}

Unregistered(k) == k \notin DOMAIN registry.rules

(* C13 as stated: an evaluate_lender call for a lender with a program that
   has any present criteria section whose key is not registered raises an
   error and returns no result *)
C13_AnyUnresolvableSectionAborts ==
  (/\ policy # None
   /\ \E i \in 1..Len(Pol.programs) :
        \E k \in PresentSections(Pol.programs[i]) : Unregistered(k))
  => raised # None /\ lender_result = None

(* C13, amended: when the lender's restrictions pass, evaluate_lender raises
   KeyError and returns no result if and only if some program has a present
   credit_score, business, credit_history, equipment or loan_amount section
   whose key is not registered, and the error names such a key; it returns a
   result (with the section evaluated) when only a geographic, industry or
   transaction key is unregistered, and when a restriction rejected the
   lender *)
C13_UnresolvableRuleSectionAborts ==
  policy # None =>
    LET unresolved ==
          {k \in RegistrySections :
             /\ Unregistered(k)
             /\ \E i \in 1..Len(Pol.programs) : k \in PresentSections(Pol.programs[i])}
    IN  IF ProgramsEvaluated /\ unresolved # {}
        THEN /\ lender_result = None
             /\ \E k \in unresolved : raised = KeyError(k, registry).raised
        ELSE /\ raised = None
             /\ lender_result = Some(evaluate_lender(context, Pol))

(* tier_bank evaluated with credit_score registered and loan_amount not: the
   credit score rule was looked up and cached, then the loan_amount lookup
   raised *)
C13_Witness ==
  /\ policy # None
  /\ Pol.id = tier_bank
  /\ ProgramsEvaluated
  /\ DOMAIN registry.rules = {"credit_score"}
  /\ DOMAIN registry.instances = {"credit_score"}
  /\ raised = KeyError("loan_amount", registry).raised
  /\ lender_result = None

(* match_application was called with at least two lenders *)
RoundCalled == Len(policies) >= 2

(* evaluating the i-th lender of the round raises *)
LenderRaises(i) ==
  engine_evaluate_lender(registry, context, policies[i]).raised # None

(* C14 as stated: a match_application round over several lenders returns a
   MatchingResult even if evaluating one of them raises, and every lender
   whose evaluation does not raise has its result in matches *)
C14_RoundSurvivesLenderError ==
  RoundCalled =>
    /\ matching_result # None
    /\ \A i \in 1..Len(policies) :
         ~LenderRaises(i) =>
           \E j \in 1..Len(MR.matches) : MR.matches[j].lender_id = policies[i].id

-----------------------------------------------------------------------------
(* Properties of match_application_async *)

(* what the sequential match_application does with the same context and
   policy list *)
Sequential == evaluate_policies(registry, context, policies, <<>>)

(* C15: whatever order the lender tasks finish in, match_application_async
   returns a MatchingResult only if the sequential match_application returns
   one for the same context and policy list, and then the same one: the same
   matches in the same order with the same ranks, the same best_match and
   totals; the evaluated list it ranked is in policy-list order; and it
   raises only if the sequential call raises *)
C15_AsyncMatchesSequential ==
  tasks # <<>> =>
    /\ matching_result # None =>
         /\ Sequential.raised = None
         /\ matching_result = Some(build_result(Val(Sequential.value)))
         /\ matches = ranked_in_place(Val(Sequential.value))
         /\ \A i \in 1..Len(policies) : matches[i].lender_id = policies[i].id
    /\ raised # None => Sequential.raised # None

(* three lenders whose tasks finished in another order than they were
   submitted in; two of them tie on (is_eligible, fit_score), the one
   submitted first finished last and is still ranked before the other *)
C15_Witness ==
  /\ Len(policies) = 3
  /\ matching_result # None
  /\ completed # <<1, 2, 3>>
  /\ \E i \in 1..3, j \in 1..3 :
       /\ i < j
       /\ \E a \in 1..3, b \in 1..3 : a < b /\ completed[a] = j /\ completed[b] = i
       /\ matches[i].is_eligible /\ matches[j].is_eligible
       /\ matches[i].fit_score = matches[j].fit_score
       /\ Val(matches[i].rank) < Val(matches[j].rank)

-----------------------------------------------------------------------------
(* Properties of the registry *)

(* the keys an instance has been built for: those with a cached instance and
   those a thread holds a built instance of that it has not stored yet *)
BuiltKeys ==
  DOMAIN registry.instances
    \cup {Val(threads[t].name) : t \in {u \in 1..MaxThreads : threads[u].pc = "store"}}

(* C16 as stated: of the get_rule calls made for one key with no clear()
   between them, from one thread or from several at once, all return the same
   instance, and no more instances are built than there are keys an instance
   has been built for *)
C16_OneInstancePerKey ==
  /\ \A h1 \in handed_out, h2 \in handed_out :
       h1.name = h2.name => h1.instance = h2.instance
  /\ registry.constructed <= Cardinality(BuiltKeys)

(* C17: a get_rule(k) or get_rule_class(k) call for a key k that is not
   registered, because it never was or because clear() removed it, raises
   KeyError naming k, returns nothing, and leaves the registered keys and the
   cached instances as they were *)
C17_UnregisteredLookupRaises ==
  [][\A name \in LookupKeys :
       (/\ name \notin DOMAIN registry.rules
        /\ GetRule(name) \/ GetRuleClass(name))
       => /\ raised' = KeyError(name, registry).raised
          /\ returned' = None
          /\ registry' = registry]_vars

(* credit_score, registered at import and removed by clear(), is looked up
   after loan_amount alone was registered again: the lookup raised and
   returned nothing *)
C17_Witness ==
  /\ policy = None
  /\ policies = <<>>
  /\ raised = KeyError("credit_score", registry).raised
  /\ returned = None
  /\ DOMAIN registry.rules = {"loan_amount"}

-----------------------------------------------------------------------------
(* Properties of the rules and of RuleResult *)

RuleCalled == rule_call # None

Call == Val(rule_call)

(* every RuleResult of the state: the one the rule call returned and those of
   the programs of the lender result *)
RuleResults ==
  (IF RuleCalled /\ Call.result # None THEN {Val(Call.result)} ELSE {})
  \cup (IF EngineCalled
        THEN UNION {{Res.program_results[i].criteria_results[j] :
                       j \in 1..Len(Res.program_results[i].criteria_results)} :
                    i \in 1..Len(Res.program_results)}
        ELSE {})

(* C18: every RuleResult, constructed directly with any score, returned by a
   rule or part of a lender's program results, has a score from 0 to 100;
   and a failed RuleResult of the credit score rule, of the loan amount rule,
   of the engine's geographic, industry and transaction checks, and of any
   program result has score 0 *)
C18_ScoresAreClamped ==
  /\ \A r \in RuleResults :
       RatLE(RatInt(0), r.score) /\ RatLE(r.score, RatInt(100))
  /\ (RuleCalled /\ Call.rule # "RuleResult" /\ Call.result # None) =>
       (~Val(Call.result).passed => Val(Call.result).score = RatInt(0))
  /\ EngineCalled =>
       \A r \in RuleResults : ~r.passed => r.score = RatInt(0)

(* RuleResult(passed=True, score=150) holds 100 *)
C18_Witness ==
  /\ RuleCalled
  /\ Call.rule = "RuleResult"
  /\ Call.criteria.passed
  /\ Call.criteria.score = RatInt(150)
  /\ Val(Call.result).score = RatInt(100)

(* the score of the configured type, None when the application has none *)
ActualScore == get_credit_score(context, Call.criteria.type)

(* C20: the credit score rule passes exactly when the score of the configured
   type is present and at least the configured minimum; a failing result has
   score 0; a passing result has score 70 + min(30, 0.3 * (actual - min)),
   which is 70 for actual = min and 100 for actual = min + 100 *)
C20_CreditScoreRule ==
  (RuleCalled /\ Call.rule = "credit_score") =>
    LET r == Val(Call.result)
    IN  /\ r.passed <=> (ActualScore # None /\ Val(ActualScore) >= Call.criteria.min)
        /\ ~r.passed => r.score = RatInt(0)
        /\ r.passed =>
             /\ r.score = RatAdd(RatInt(70),
                            RatMin(RatInt(30),
                                   RatMul(Rat(3, 10),
                                          RatInt(Val(ActualScore) - Call.criteria.min))))
             /\ Val(ActualScore) = Call.criteria.min => r.score = RatInt(70)
             /\ Val(ActualScore) = Call.criteria.min + 100 => r.score = RatInt(100)
             /\ Val(ActualScore) > Call.criteria.min + 100 => r.score = RatInt(100)

(* a FICO score of 800 against a minimum of 700: the bonus reaches its cap
   of 30 and the result scores 100 *)
C20_Witness ==
  /\ RuleCalled
  /\ Call.rule = "credit_score"
  /\ ActualScore = Some(800)
  /\ Call.criteria.min = 700
  /\ Val(Call.result).passed
  /\ Val(Call.result).score = RatInt(100)

(* the fields of a section that _evaluate_criteria forwards to the rule *)
ForwardedFields(k) ==
  CASE k = "business" ->
         {"min_time_in_business_years", "requires_homeowner", "requires_cdl",
          "min_cdl_years", "min_industry_experience_years", "min_fleet_size"}
    [] k = "credit_history" ->
         {"max_bankruptcies", "bankruptcy_min_discharge_years",
          "max_open_judgements", "allows_foreclosure", "allows_repossession",
          "max_tax_liens"}
    [] k = "equipment"   -> {"max_age_years", "max_mileage"}
    [] k = "loan_amount" -> {"min_amount", "max_amount"}

(* the engine's check of a geographic, industry or transaction section
   rejects the application *)
RestrictionFails(k, section) ==
  /\ evaluate_restriction(k, context, section) # None
  /\ ~Val(evaluate_restriction(k, context, section)).passed

(* the sections of a program that contribute a RuleResult for the context:
   credit_score when present; business, credit_history, equipment and
   loan_amount when present with a forwarded field set; geographic, industry
   and transaction when present and failing *)
ContributingSections(program) ==
  {k \in PresentSections(program) :
     \/ k = "credit_score"
     \/ /\ k \in {"business", "credit_history", "equipment", "loan_amount"}
        /\ \E f \in ForwardedFields(k) : ~IsNone(Val(program.criteria[k])[f])
     \/ /\ k \in {"geographic", "industry", "transaction"}
        /\ RestrictionFails(k, Val(program.criteria[k]))}

(* the RuleResults of the i-th program that come from its criteria sections:
   all but those of the program's amount bounds *)
SectionResultCount(i) ==
  Len(Res.program_results[i].criteria_results)
  - Len(check_amount_bounds(context, Pol.programs[i]))

(* C19 as stated: in every program result, each present criteria section has
   contributed exactly one RuleResult and each absent section none *)
C19_OneResultPerPresentSection ==
  EngineCalled =>
    \A i \in 1..Len(Res.program_results) :
      SectionResultCount(i) = Cardinality(PresentSections(Pol.programs[i]))

(* C19, amended: in every program result, a present credit_score section has
   contributed one RuleResult; a present business, credit_history, equipment
   or loan_amount section one RuleResult if a field forwarded to its rule is
   set and none otherwise; a present geographic, industry or transaction
   section one failing RuleResult if its check fails and none if it passes;
   an absent section none *)
C19_ResultsOfContributingSections ==
  EngineCalled =>
    \A i \in 1..Len(Res.program_results) :
      /\ SectionResultCount(i) = Cardinality(ContributingSections(Pol.programs[i]))
      /\ \A k \in {"geographic", "industry", "transaction"} :
           (k \in ContributingSections(Pol.programs[i])) <=>
             (/\ k \in PresentSections(Pol.programs[i])
              /\ \E j \in 1..Len(Res.program_results[i].criteria_results) :
                   Some(Res.program_results[i].criteria_results[j]) =
                     evaluate_restriction(k, context,
                       Val(Pol.programs[i].criteria[k])))

(* local_bank's program has equipment, geographic, industry and transaction
   sections; for this application the geographic, industry and transaction
   checks pass: one RuleResult, that of the equipment rule, for four
   sections *)
C19_Witness ==
  /\ EngineCalled
  /\ Pol.id = local_bank
  /\ Cardinality(PresentSections(Pol.programs[1])) = 4
  /\ ContributingSections(Pol.programs[1]) = {"equipment"}
  /\ Len(Res.program_results[1].criteria_results) = 1
  /\ Res.program_results[1].is_eligible

(* the entries of a state list, none when the list is absent *)
StateList(o) == IF IsNone(o) THEN {} ELSE {Val(o)[i] : i \in 1..Len(Val(o))}

(* the applicant's state is an entry of the list, letter case aside *)
OnStateList(o) == \E s \in StateList(o) : Lower(s) = Lower(context.state)

(* what a geographic call answered: a failing result, and its message *)
GeographicFailed ==
  IF Call.by = "rule" THEN ~Val(Call.result).passed
  ELSE Call.result # None /\ ~Val(Call.result).passed

(* C21: the geographic check, as the registered rule and as the engine's
   restriction check, compares states without regard to letter case and
   looks at the excluded list first: a state on the excluded list fails with
   the exclusion message, also when it is on the allowed list; a state not
   excluded fails with the allowed-list message exactly when an allowed list
   is configured and the state is not on it; every other state passes *)
C21_GeographicExclusionWins ==
  (RuleCalled /\ Call.rule = "geographic") =>
    LET excluded == OnStateList(Call.criteria.excluded_states)
        allowed  == OnStateList(Call.criteria.allowed_states)
        listed   == StateList(Call.criteria.allowed_states) # {}
        state    == Upper(context.state)
    IN  /\ GeographicFailed <=> (excluded \/ (listed /\ ~allowed))
        /\ excluded =>
             Val(Call.result).message =
               IF Call.by = "rule"
               THEN Msg("State {} is excluded from this program", <<state>>)
               ELSE Msg("State {} is excluded by this lender", <<state>>)
        /\ (~excluded /\ listed /\ ~allowed) =>
             Val(Call.result).message =
               IF Call.by = "rule"
               THEN Msg("State {} is not in the allowed states list", <<state>>)
               ELSE Msg("State {} is not in the allowed list", <<state>>)

(* the rule called for an applicant of state "ca" with "ca" excluded and
   "CA" allowed: it fails *)
C21_Witness ==
  /\ RuleCalled
  /\ Call.rule = "geographic"
  /\ Call.by = "rule"
  /\ context.state = <<"c","a">>
  /\ OnStateList(Call.criteria.excluded_states)
  /\ OnStateList(Call.criteria.allowed_states)
  /\ ~Val(Call.result).passed

(* what each of the five credit history checks finds for the call, in the
   order bankruptcy, open judgements, tax liens, foreclosure, repossession:
   the message of the failed check, or None *)
HistoryChecks ==
  <<check_bankruptcy(context, Call.criteria),
    check_open_judgements(context, Call.criteria),
    check_tax_liens(context, Call.criteria),
    check_foreclosure(context, Call.criteria),
    check_repossession(context, Call.criteria)>>

FailingHistoryChecks == {i \in 1..5 : HistoryChecks[i] # None}

(* C22: the credit history rule fails exactly when one of the five checks
   fails; the message of a failed result is that of the first failing check
   in the order bankruptcy, open judgements, tax liens, foreclosure,
   repossession, and its details list every failing check, each once and in
   that order *)
C22_FirstFailureIsMessageAllInDetails ==
  (RuleCalled /\ Call.rule = "credit_history") =>
    LET r == Val(Call.result)
    IN  /\ r.passed <=> FailingHistoryChecks = {}
        /\ ~r.passed =>
             LET first   == CHOOSE i \in FailingHistoryChecks :
                              \A k \in FailingHistoryChecks : i <= k
                 details == Val(r.details)
             IN  /\ r.message = Val(HistoryChecks[first])
                 /\ Len(details) = Cardinality(FailingHistoryChecks)
                 /\ \A i \in FailingHistoryChecks :
                      \E j \in 1..Len(details) : details[j] = Val(HistoryChecks[i])
                 /\ \A j, k \in 1..Len(details) :
                      j < k =>
                        \E a, b \in FailingHistoryChecks :
                          /\ a < b
                          /\ details[j] = Val(HistoryChecks[a])
                          /\ details[k] = Val(HistoryChecks[b])

(* a bankruptcy discharged 3.0 years ago against a minimum of 5 years, with
   an open judgement and a tax lien that are not allowed either: the message
   is the bankruptcy one, citing both figures, and the details hold three
   failures *)
C22_Witness ==
  /\ RuleCalled
  /\ Call.rule = "credit_history"
  /\ context.has_bankruptcy /\ context.has_open_judgements /\ context.has_tax_liens
  /\ ~context.has_foreclosure /\ ~context.has_repossession
  /\ Call.criteria.bankruptcy_min_discharge_years = Some(50)
  /\ Val(Call.result).message =
       Msg("Bankruptcy discharged {:.1f} years ago, minimum {} years required",
           <<30, 50>>)
  /\ Len(Val(Val(Call.result).details)) = 3

(* the sub-checks the business rule call has configured, with what each
   found *)
SubChecks == BusinessChecks(context, Call.criteria)

SubCheckIndices == 1..Len(SubChecks)

(* C23: the business requirements rule fails exactly when a configured
   sub-check fails; when every configured sub-check passes and there is at
   least one, the score is the points earned over the points available,
   times 100 *)
C23_BusinessRuleAggregates ==
  (RuleCalled /\ Call.rule = "business") =>
    LET r      == Val(Call.result)
        earned == RatSum([i \in SubCheckIndices |-> SubChecks[i].score])
        max    == RatSum([i \in SubCheckIndices |-> RatInt(SubChecks[i].max_score)])
    IN  /\ ~r.passed <=> \E i \in SubCheckIndices : ~SubChecks[i].passed
        /\ (r.passed /\ SubCheckIndices # {}) =>
             RatMul(r.score, max) = RatMul(RatInt(100), earned)

(* five years in business against a minimum of two, and a homeowner: 15 of
   25 points and 15 of 15, a score of 75 *)
C23_Witness ==
  /\ RuleCalled
  /\ Call.rule = "business"
  /\ Len(SubChecks) = 2
  /\ context.years_in_business = 50
  /\ Val(Call.result).passed
  /\ Val(Call.result).score = RatInt(75)

(* an allowed_industries list is configured and no entry of it is found in
   the applicant's industry code or name, letter case aside *)
OutsideAllowedIndustries(section) ==
  /\ section # None
  /\ TruthyList(Val(section).allowed_industries)
  /\ LET allowed == Val(Val(section).allowed_industries)
     IN  \A i \in 1..Len(allowed) :
           /\ ~Contains(Lower(context.industry_code), Lower(allowed[i]))
           /\ ~Contains(Lower(context.industry_name), Lower(allowed[i]))

(* C24: a lender whose lender-wide industry restriction configures allowed
   industries is ineligible for an application of another industry, and so
   is a program whose industry section configures allowed industries *)
C24_AllowedIndustriesEnforced ==
  EngineCalled =>
    /\ (Pol.restrictions # None
        /\ OutsideAllowedIndustries(Val(Pol.restrictions).industry))
         => ~Res.is_eligible
    /\ \A i \in 1..Len(Res.program_results) :
         OutsideAllowedIndustries(Pol.programs[i].criteria.industry)
           => ~Res.program_results[i].is_eligible

(* C25: a program whose equipment section configures max_hours is ineligible
   for an application whose equipment hours are present and above it *)
C25_MaxHoursEnforced ==
  EngineCalled =>
    \A i \in 1..Len(Res.program_results) :
      LET equipment == Pol.programs[i].criteria.equipment
      IN  (/\ equipment # None
           /\ Val(equipment).max_hours # None
           /\ context.equipment_hours # None
           /\ Val(context.equipment_hours) > Val(Val(equipment).max_hours))
            => ~Res.program_results[i].is_eligible

(* Properties of the evaluation workflow *)

StepCalled(step) == step_call # None /\ Val(step_call).step = step

Step == Val(step_call)

(* the ranking of the matches ms: every match once, first the k eligible
   ones, fit scores not increasing, with ranks 1..k, then the ineligible ones
   with rank None, under the status "completed" *)
RankedAsClaimed ==
    LET ms     == Step.input.matches
        ranked == Val(Step.output.ranked_matches)
        k      == Len(SelectSeq(ms, LAMBDA m : m.is_eligible))
    IN  /\ Step.output.status = "completed"
        /\ Len(ranked) = Len(ms)
        /\ \A i \in 1..Len(ms) :
             \E j \in 1..Len(ranked) : ranked[j].lender_id = ms[i].lender_id
        /\ \A j \in 1..Len(ranked) :
             \E i \in 1..Len(ms) :
               /\ ms[i].lender_id = ranked[j].lender_id
               /\ ms[i].is_eligible = ranked[j].is_eligible
               /\ ms[i].fit_score = ranked[j].fit_score
        /\ \A j \in 1..Len(ranked) :
             IF j <= k
             THEN ranked[j].is_eligible /\ ranked[j].rank = Some(j)
             ELSE ~ranked[j].is_eligible /\ ranked[j].rank = None
        /\ \A j \in 1..(k - 1) :
             ~RatLT(ranked[j].fit_score, ranked[j + 1].fit_score)

(* C26: the ranking step returns every match once: first the k eligible
   ones, fit scores not increasing, with ranks 1..k, then the ineligible ones
   with rank None; its status is "completed", also when no match is eligible
   and every rank is None *)
C26_RankingStep == StepCalled("rank_results") => RankedAsClaimed

(* C26, amended: on the output of an evaluation step that was not skipped the
   ranking step returns the matches ranked as claimed, under the status
   "completed"; on that of a skipped evaluation step it returns the status
   "skipped" and no matches *)
C26_RankingStepUnlessSkipped ==
  StepCalled("rank_results") =>
    IF Step.input.skipped
    THEN Step.output.status = "skipped" /\ Step.output.ranked_matches = None
    ELSE RankedAsClaimed

(* the test's matches: a (80) and b (90) eligible, c ineligible, handed in
   as a, b, c and returned as b, a, c with ranks 1, 2 and None *)
C26_Witness ==
  /\ StepCalled("rank_results")
  /\ ~Step.input.skipped
  /\ Len(Step.input.matches) = 3
  /\ Step.input.matches[1].lender_id = "a"
  /\ Step.input.matches[2].lender_id = "b"
  /\ Step.input.matches[3].lender_id = "c"
  /\ Val(Step.output.ranked_matches)[1].lender_id = "b"
  /\ Val(Step.output.ranked_matches)[2].rank = Some(2)
  /\ Val(Step.output.ranked_matches)[3].rank = None

(* C30: once trigger_evaluation has run the workflow synchronously with a
   database session and returned, the application's stored status is
   "completed" or "error" *)
C30_SyncRunSettlesStatus ==
  (/\ StepCalled("trigger_evaluation")
   /\ Step.input.hatchet # "running"
   /\ Step.input.db)
    => application_status \in {"completed", "error"}


(* Properties of the fit score of an eligible lender *)

EligibleHasEligibleProgram ==
  /\ Res.best_program # None
  /\ Val(Res.best_program).is_eligible

(* C27: every LenderMatchResult with is_eligible = TRUE has a non-null
   eligible best_program and a fit_score strictly greater than 0 and at most
   100 *)
C27_EligibleScoreIsPositive ==
  (EngineCalled /\ Res.is_eligible) =>
    /\ EligibleHasEligibleProgram
    /\ RatLT(RatInt(0), Res.fit_score)
    /\ RatLE(Res.fit_score, RatInt(100))

(* C27, amended: every LenderMatchResult with is_eligible = TRUE has a
   non-null eligible best_program and a fit_score between 0 and 100, both
   included *)
C27_EligibleScoreInRange ==
  (EngineCalled /\ Res.is_eligible) =>
    /\ EligibleHasEligibleProgram
    /\ RatLE(RatInt(0), Res.fit_score)
    /\ RatLE(Res.fit_score, RatInt(100))

(* an eligible lender whose best program scored 0: the business is exactly
   as old as the program's minimum time in business *)
C27_Witness ==
  /\ EngineCalled
  /\ Res.is_eligible
  /\ EligibleHasEligibleProgram
  /\ Res.fit_score = RatInt(0)
  /\ Val(Res.best_program).criteria_results # <<>>


(* Properties of the registry under re-registration *)

(* C28: in every state a sequence of register, get_rule and clear leads to,
   a get_rule(k) that returns hands out an instance of the class registered
   under k at that moment, the one most recently registered; also when an
   instance of an earlier class was cached before *)
C28_GetRuleReturnsLatestClass ==
  \A name \in RegisterKeys :
    get_rule(registry, name).raised = None
      => Val(get_rule(registry, name).value).class = registry.rules[name]


(* Properties of PolicyLoader.load_policy *)

(* what reading and validating the file as it is now gives *)
read_now(lender_id) ==
  [raised |-> load_policy(PolicyLoader, files, lender_id, FALSE).raised,
   value  |-> load_policy(PolicyLoader, files, lender_id, FALSE).value]

(* C29: load_policy(lender_id, use_cache=False) returns or raises what
   reading and validating the policy file as it currently is gives; after an
   earlier load failed and the file has been made valid, it returns the new
   policy rather than the remembered error *)
C29_UncachedLoadReadsFile ==
  (StepCalled("load_policy") /\ ~Step.input.use_cache)
    => Step.output = read_now(Step.input.lender_id)

====
